---- MODULE Spec2Model ----
(***************************************************************************)
(* Rustis: an in-memory key/value server with per-key expiration and       *)
(* publish/subscribe.  The module models the shared Database               *)
(* (persistence/database.rs), the background task that evicts expired      *)
(* keys, and the per-connection command handlers (cmd/*.rs), and states    *)
(* the properties of the specification against them.                       *)
(*                                                                         *)
(* Two specifications share the variables:                                 *)
(*   KVSpec   SET / GET from several connections, the eviction task, the   *)
(*            clock, start-up with or without a snapshot file, shutdown;   *)
(*   PSSpec   SUBSCRIBE / UNSUBSCRIBE / PUBLISH and the subscribe-mode     *)
(*            loop of Subscribe::apply.                                    *)
(***************************************************************************)
EXTENDS Integers, Sequences, FiniteSets, TLC

\* ------------------------------------------------------------------ bounds
MaxClock == 2000
MaxCmds == 3
MaxPub == 2
MaxFrames == 3

\* --------------------------------------------------------- program constants
MsPerSec == 1000
ChannelCapacity == 1024

\* ------------------------------------------------------------- input domains
Conns == {"c1", "c2"}
Keys == {"k1", "k2"}
Values == {"v1", "v2"}
Channels == {"a", "b"}
TickMs == 500

\* Option<T>: None is the empty tuple, Some(x) the one-element tuple.
None == <<>>
Some(x) == <<x>>

\* TTLs a client sends: none, EX 0, EX 1, PX 500 (Duration in milliseconds).
Expires == {None, Some(0), Some(1000), Some(500)}

\* Contents of rustis.rdb found at start-up (a serialized `entries` map of an
\* earlier run); StartFiles adds the case of an absent file (None).
EmptyMap == [k \in {} |-> 0]
SnapshotFiles ==
    { [k \in {"k1"} |-> [data |-> "v1", expires_at |-> Some(1)]] }
StartFiles == {None} \cup {Some(m) : m \in SnapshotFiles}

VARIABLES
    entries,        \* State.entries: HashMap<String, Entry>
    expirations,    \* State.expirations: BTreeSet<(u64, String)>
    pub_sub,        \* State.pub_sub: the channels that have a broadcast Sender
    shutdown,       \* State.shutdown
    permit,         \* Shared.notify_background_task holds a stored permit
    reaper,         \* the clean_expired_keys task: [pc, when, deadline]
    clock,          \* wall clock / tokio clock, in milliseconds
    pc,             \* per connection: position of its handler
    resp,           \* the frame last written by a command in normal mode
    chans,          \* per connection: Subscribe.channels
    idx,            \* per connection: position of the `for` loop over Subscribe.channels
    newrx,          \* per connection: Receiver returned by Database::subscribe, not yet inserted
    subs,           \* per connection: the StreamMap (Vec of (channel, receiver queue))
    out,            \* per connection: frames written since entering subscribe mode
    ncmd,           \* number of pub/sub requests the handlers have read
    npub,           \* number of messages published so far (message payloads are 1..npub)
    obs,            \* history: the SET being watched (see LastSet)
    psobs,          \* history of the pub/sub traffic (see PSObsInit)
    inq,            \* per connection: request frames sent by the client, not yet read
    sent,           \* per connection: number of request frames the client has sent
    cur,            \* per connection: the frame Handler::run has read and is dispatching
    hist,           \* per connection: outcome of each request dispatched in normal mode
    snapshot,       \* contents of rustis.rdb written by save_to_rdb in this run
    run_pc,         \* position of server::run
    lsn,            \* the Listener: [pc, backoff, slept]
    busy,           \* history: the handlers that were applying a command when shutdown_tx was dropped
    wire,           \* a Connection on its own: the bytes it writes and reads (None when not followed)
    rdb             \* a file written by save_to_rdb and read back (None when not followed)

vars == <<entries, expirations, pub_sub, shutdown, permit, reaper, clock, pc,
          resp, chans, idx, newrx, subs, out, ncmd, npub, obs, psobs,
          inq, sent, cur, hist, snapshot, run_pc, lsn, busy, wire, rdb>>

kvVars == <<entries, expirations, shutdown, permit, reaper, clock, obs>>
psVars == <<pub_sub, chans, idx, newrx, subs, out, ncmd, npub, psobs>>
hVars == <<inq, sent, cur, hist>>
srvVars == <<snapshot, run_pc, lsn, busy>>
ioVars == <<wire, rdb>>
storeVars == <<kvVars, psVars, hVars, srvVars, pc, resp>>

\* ------------------------------------------------------------------- frames
\* A Frame is <<tag, text, number>>.
Simple(s) == <<"simple", s, 0>>
Error(s) == <<"error", s, 0>>
Integer(n) == <<"integer", "", n>>
Bulk(b) == <<"bulk", b, 0>>
Null == <<"null", "", 0>>
NoFrame == <<"none", "", 0>>

\* ------------------------------------------------------------ the Database
NowSecs == clock \div MsPerSec

\* Duration::as_secs
as_secs(ms) == ms \div MsPerSec

Entry(value, expires_at) == [data |-> value, expires_at |-> expires_at]

KeyRank(k) == IF k = "k1" THEN 1 ELSE 2

\* Ord for (u64, String)
PairLess(p, q) == p[1] < q[1] \/ (p[1] = q[1] /\ KeyRank(p[2]) < KeyRank(q[2]))

\* BTreeSet::iter().next()
First(exps) == CHOOSE p \in exps : \A q \in exps \ {p} : PairLess(p, q)

next_expiration(exps) == IF exps = {} THEN None ELSE Some(First(exps)[1])

\* variant of the insertion that keeps the entry a key already has
MapInsertIfAbsent(m, k, e) ==
    [x \in DOMAIN m \cup {k} |-> IF x \in DOMAIN m THEN m[x] ELSE e]

\* HashMap::insert / HashMap::remove
MapInsert(m, k, e) == [x \in DOMAIN m \cup {k} |-> IF x = k THEN e ELSE m[x]]
MapRemove(m, k) == [x \in DOMAIN m \ {k} |-> m[x]]

\* variant of the lookup that hides an entry whose expiry has passed
getUnlessExpired(k) ==
    IF k \in DOMAIN entries
          /\ (entries[k].expires_at = None \/ entries[k].expires_at[1] > NowSecs)
    THEN Some(entries[k].data) ELSE None

\* Database::get
get(k) == IF k \in DOMAIN entries THEN Some(entries[k].data) ELSE None

\* Database::set, lines 106-120: absolute expiry and the `notify` local
ExpireAt(expire) == IF expire = None THEN None ELSE Some(NowSecs + as_secs(expire[1]))

\* variant of `notify` that stays false while nothing is scheduled
NotifyOnlyEarlier(exps, expire_at) ==
    IF expire_at = None THEN FALSE
    ELSE IF next_expiration(exps) = None THEN FALSE
    ELSE next_expiration(exps)[1] > expire_at[1]

NotifyNeeded(exps, expire_at) ==
    IF expire_at = None THEN FALSE
    ELSE IF next_expiration(exps) = None THEN TRUE
    ELSE next_expiration(exps)[1] > expire_at[1]

\* variant of the update that leaves the previous entry's pair in place
KeepPrev(exps, m, k) == exps

\* Database::set, lines 127-134: drop the previous entry's pair
RemovePrev(exps, m, k) ==
    IF k \in DOMAIN m /\ m[k].expires_at # None
    THEN exps \ {<<m[k].expires_at[1], k>>}
    ELSE exps

\* Database::set, lines 136-139
InsertNew(exps, expire_at, k) ==
    IF expire_at = None THEN exps ELSE exps \cup {<<expire_at[1], k>>}

\* Shared::clean_expired_keys, the `while let` loop: the result is the state
\* after the loop and the value returned.
\* variant of the loop that keeps a pair whose expiry equals `now`
RECURSIVE CleanLoopStrict(_, _, _)
CleanLoopStrict(m, exps, now) ==
    IF exps = {} THEN [entries |-> m, expirations |-> exps, ret |-> None]
    ELSE LET p == First(exps) IN
         IF p[1] >= now THEN [entries |-> m, expirations |-> exps, ret |-> Some(p[1])]
         ELSE CleanLoopStrict(MapRemove(m, p[2]), exps \ {p}, now)

RECURSIVE CleanLoop(_, _, _)
CleanLoop(m, exps, now) ==
    IF exps = {} THEN [entries |-> m, expirations |-> exps, ret |-> None]
    ELSE LET p == First(exps) IN
         IF p[1] > now THEN [entries |-> m, expirations |-> exps, ret |-> Some(p[1])]
         ELSE CleanLoop(MapRemove(m, p[2]), exps \ {p}, now)

\* Instant at which the task's sleep_until fires, lines 388-393
Deadline(when) ==
    clock + (IF when > NowSecs THEN when - NowSecs ELSE 0) * MsPerSec

Asleep(w, d) == [pc |-> "sleep", when |-> w, deadline |-> d]
Task(p) == [pc |-> p, when |-> 0, deadline |-> 0]

\* ----------------------------------------------------------------- history
\* obs watches one SET at a time: it is Some of a SET that connection `conn`
\* applied as its latest command, as long as no other connection wrote that key
\* since (which SET is watched is chosen freely):
\*   key, val   the arguments; ttl: it carried EX/PX;
\*   hadTtl     the entry it replaced had an expiry;
\*   got        `conn` has since issued GET key, its latest command.
LastSet(c, k, v, ttl, hadTtl) ==
    [conn |-> c, key |-> k, val |-> v, ttl |-> ttl, hadTtl |-> hadTtl, got |-> FALSE]

Watching(c) == obs # None /\ obs[1].conn = c

\* the watch after connection c issued a command that writes key k
Unwatch(c, k) == IF obs # None /\ (obs[1].conn = c \/ obs[1].key = k) THEN None ELSE obs

\* ---------------------------------------------------------------- pub/sub
SubscribeFrame(ch, n) == <<"subscribe", ch, n>>
UnsubscribeFrame(ch, n) == <<"unsubscribe", ch, n>>
MessageFrame(ch, m) == <<"message", ch, m>>

\* Unknown::apply formats its reply with a four-character Chinese literal
\* (code points U+672A U+77E5 U+547D U+4EE4, "unknown command"), ": " and the name.
UnknownText(name) == "U+672A U+77E5 U+547D U+4EE4: " \o name

\* variant of Sender::subscribe whose receiver starts at the first message
\* ever sent instead of the next one
ReceiverFromStart(ch) == [chan |-> ch, q |-> [i \in 1 .. npub |-> i]]

\* A broadcast::Receiver: its channel and the messages sent since it was
\* created that it has not received yet.
Receiver(ch) == [chan |-> ch, q |-> <<>>]

\* broadcast::Sender::send into one receiver's view of the ring buffer: a
\* receiver that is ChannelCapacity behind loses the oldest message.
Push(q, m) == IF Len(q) >= ChannelCapacity THEN Tail(q) \o <<m>> ELSE q \o <<m>>

\* StreamMap: a Vec of (key, stream) entries
Positions(sm, ch) == {i \in 1 .. Len(sm) : sm[i].chan = ch}
SwapRemove(sm, i) ==
    [j \in 1 .. (Len(sm) - 1) |-> IF j = i THEN sm[Len(sm)] ELSE sm[j]]
Min(S) == CHOOSE x \in S : \A y \in S : x <= y
StreamMapRemove(sm, ch) ==
    IF Positions(sm, ch) = {} THEN sm ELSE SwapRemove(sm, Min(Positions(sm, ch)))
\* variant of the insertion that pushes without removing the key's old entry
StreamMapPush(sm, rx) == Append(sm, rx)
StreamMapInsert(sm, rx) == Append(StreamMapRemove(sm, rx.chan), rx)
StreamMapKeys(sm) == [i \in 1 .. Len(sm) |-> sm[i].chan]

\* live receivers of a channel (the Sender's rx_cnt)
RECURSIVE SumOver(_, _)
SumOver(S, f) ==
    IF S = {} THEN 0 ELSE LET x == CHOOSE y \in S : TRUE IN f[x] + SumOver(S \ {x}, f)

Pending(c, ch) == newrx[c] # None /\ newrx[c][1].chan = ch
RxOf(c, ch) == Cardinality(Positions(subs[c], ch)) + (IF Pending(c, ch) THEN 1 ELSE 0)
RxCount(ch) == SumOver(Conns, [c \in Conns |-> RxOf(c, ch)])

\* variant of publish that reports a send without receivers as one delivery
publish_at_least_one(ch) ==
    IF ch \notin pub_sub THEN 0
    ELSE IF RxCount(ch) = 0 THEN 1 ELSE RxCount(ch)

\* Database::publish: tx.send(message).unwrap_or(0), or 0 without a sender
publish(ch) ==
    IF ch \notin pub_sub THEN 0
    ELSE IF RxCount(ch) = 0 THEN 0 ELSE RxCount(ch)

\* the receivers after send
Sent(sm, ch, m) ==
    [i \in 1 .. Len(sm) |-> IF sm[i].chan = ch THEN [sm[i] EXCEPT !.q = Push(@, m)] ELSE sm[i]]

\* Command::get_name of the mode-exit sentinel
ExitSubscribeName == "exitsubscribe"

\* channel lists a client names in SUBSCRIBE (one or more) and UNSUBSCRIBE
SubLists == {<<"a">>, <<"b">>, <<"a", "b">>}
UnsubLists == {<<>>, <<"a">>}
Range(f) == {f[i] : i \in DOMAIN f}

\* -------------------------------------------------------- pub/sub history
\* psobs.owed[c]      (channel, message) pairs published while the last frame
\*                    connection c had written about the channel was its
\*                    `subscribe` acknowledgement, and not yet written to c;
\* psobs.unsub[c]     channels whose `unsubscribe` response c has written and
\*                    that no later SUBSCRIBE of c has named;
\* psobs.lastpub      the latest PUBLISH: channel, the count it answered, the
\*                    connections holding the channel in their StreamMap, the
\*                    connections holding a receiver not yet inserted, the
\*                    connections it counted among those of psobs.unsub;
\* psobs.unsuball[c]  Some of (subscriptions held, frames written) at the time
\*                    c read an UNSUBSCRIBE without channels, its latest request;
\* psobs.other[c]     Some of (frames written, command name, channels held) at
\*                    the time c read a command other than SUBSCRIBE and
\*                    UNSUBSCRIBE in subscribe mode, its latest event;
\* psobs.exited[c]    c has sent `exitsubscribe` since it entered subscribe mode.
PSObsInit ==
    [owed |-> [c \in Conns |-> {}],
     unsub |-> [c \in Conns |-> {}],
     lastpub |-> None,
     unsuball |-> [c \in Conns |-> None],
     other |-> [c \in Conns |-> None],
     exited |-> [c \in Conns |-> FALSE]]

\* the last frame of `o` about channel ch is a subscribe acknowledgement
Acked(o, ch) ==
    LET about == {i \in 1 .. Len(o) : o[i][1] \in {"subscribe", "unsubscribe"} /\ o[i][2] = ch}
    IN about # {} /\ o[CHOOSE i \in about : \A j \in about : j <= i][1] = "subscribe"

\* ------------------------------------------------------------------- Init
\* DatabaseWrapper::new: Database::new() spawns the task on its own Shared;
\* when rustis.rdb loads, the Database is replaced by the one load_from_rdb
\* builds, whose Shared has an empty `expirations` and no task.
StoreAfter(file) ==
    IF file = None
    THEN [entries |-> EmptyMap, reaper |-> Task("loop")]
    ELSE [entries |-> file[1], reaper |-> Task("absent")]

KVInitWith(file) ==
    /\ entries = StoreAfter(file).entries
    /\ reaper = StoreAfter(file).reaper
    /\ expirations = {}
    /\ shutdown = FALSE
    /\ permit = FALSE
    /\ clock = 0
    /\ resp = NoFrame

PSInit ==
    /\ pub_sub = {}
    /\ chans = [c \in Conns |-> <<>>]
    /\ idx = [c \in Conns |-> 0]
    /\ newrx = [c \in Conns |-> None]
    /\ subs = [c \in Conns |-> <<>>]
    /\ out = [c \in Conns |-> <<>>]
    /\ npub = 0
    /\ ncmd = 0
    /\ psobs = PSObsInit

\* server::run before its select!, Listener::accept before its first attempt,
\* no client traffic yet
HInit ==
    /\ inq = [c \in Conns |-> <<>>]
    /\ sent = [c \in Conns |-> 0]
    /\ cur = [c \in Conns |-> None]
    /\ hist = [c \in Conns |-> <<>>]
    /\ snapshot = None
    /\ run_pc = "select"
    /\ lsn = [pc |-> "accept", backoff |-> 1, slept |-> <<>>]
    /\ busy = {}

\* `where` is the position of every connection's handler: "reading" when the
\* connections have been accepted, "unconnected" before
StoreInit(file, where) ==
    /\ KVInitWith(file)
    /\ obs = None
    /\ PSInit
    /\ HInit
    /\ pc = [c \in Conns |-> where]

InitFrom(file, where) == StoreInit(file, where) /\ wire = None /\ rdb = None

InitWith(file) == InitFrom(file, "reading")

Init == \E file \in StartFiles : InitWith(file)

\* ---------------------------------------------------------------- SET, GET
\* Set::apply: Database::set (the update under the state lock, then
\* notify_one when `notify` is set), then the +OK response.
SetStore(c, k, v, expire) ==
    /\ pc[c] = "reading"
    /\ ~shutdown
    /\ LET expire_at == ExpireAt(expire) IN
       /\ entries' = MapInsert(entries, k, Entry(v, expire_at))
       /\ expirations' = InsertNew(RemovePrev(expirations, entries, k), expire_at, k)
       /\ permit' = (permit \/ NotifyNeeded(expirations, expire_at))
    /\ resp' = Simple("OK")
    /\ UNCHANGED <<shutdown, reaper, clock, pc>>
    /\ UNCHANGED psVars
    /\ UNCHANGED <<hVars, srvVars>>
    /\ UNCHANGED ioVars

Set(c, k, v, expire) ==
    /\ SetStore(c, k, v, expire)
    /\ obs' \in { Unwatch(c, k),
                  Some(LastSet(c, k, v, expire # None,
                               k \in DOMAIN entries /\ entries[k].expires_at # None)) }

\* history of the latest SET with a TTL: its key, when it was applied and the
\* TTL asked for, both in milliseconds
TimedSet(k, at, dur) == [key |-> k, at |-> at, dur |-> dur]

\* SET k v EX s / PX m, remembered as the latest SET
SetWithTtl(c, k, v, expire) ==
    /\ expire # None
    /\ SetStore(c, k, v, expire)
    /\ obs' = Some(TimedSet(k, clock, expire[1]))

\* Get::apply
GetResponse(k) == IF get(k) = None THEN Null ELSE Bulk(get(k)[1])

Get(c, k) ==
    /\ pc[c] = "reading"
    /\ ~shutdown
    /\ resp' = GetResponse(k)
    /\ obs' = IF Watching(c) /\ obs[1].key = k /\ ~obs[1].got
              THEN Some([obs[1] EXCEPT !.got = TRUE])
              ELSE IF Watching(c) THEN None ELSE obs
    /\ UNCHANGED <<entries, expirations, shutdown, permit, reaper, clock, pc>>
    /\ UNCHANGED psVars
    /\ UNCHANGED <<hVars, srvVars>>
    /\ UNCHANGED ioVars

\* ------------------------------------------------------ the eviction task
\* One turn of `while !shared.is_shutdown()`: the pass under the lock, then
\* either the select! on sleep_until / notified(), or notified().await.
ReaperPass ==
    /\ reaper.pc = "loop"
    /\ IF shutdown
       THEN /\ reaper' = Task("exited")
            /\ UNCHANGED <<entries, expirations>>
       ELSE LET r == CleanLoop(entries, expirations, NowSecs) IN
            /\ entries' = r.entries
            /\ expirations' = r.expirations
            /\ reaper' = IF r.ret = None THEN Task("waiting")
                         ELSE Asleep(r.ret[1], Deadline(r.ret[1]))
    /\ UNCHANGED <<shutdown, permit, clock, pc, resp, obs>>
    /\ UNCHANGED psVars
    /\ UNCHANGED <<hVars, srvVars>>
    /\ UNCHANGED ioVars

\* The task is woken: the timer fired, or notified() consumed the permit.
ReaperWake ==
    /\ \/ /\ reaper.pc = "sleep"
          /\ clock >= reaper.deadline
          /\ UNCHANGED permit
       \/ /\ reaper.pc \in {"sleep", "waiting"}
          /\ permit
          /\ permit' = FALSE
    /\ reaper' = Task("loop")
    /\ UNCHANGED <<entries, expirations, shutdown, clock, pc, resp, obs>>
    /\ UNCHANGED psVars
    /\ UNCHANGED <<hVars, srvVars>>
    /\ UNCHANGED ioVars

Tick ==
    /\ clock + TickMs <= MaxClock
    /\ clock' = clock + TickMs
    /\ UNCHANGED <<entries, expirations, shutdown, permit, reaper, pc, resp, obs>>
    /\ UNCHANGED psVars
    /\ UNCHANGED <<hVars, srvVars>>
    /\ UNCHANGED ioVars

\* variant of shutdown_clean_task that notifies without setting the flag
KeepFlag(flag) == flag

\* Database::shutdown_clean_task: state.shutdown = true
shutdown_clean_task(flag) == TRUE

\* DatabaseWrapper::drop -> Database::shutdown_clean_task.  server::run drops
\* the wrapper after every handler has returned.
ShutdownCleanTask ==
    /\ ~shutdown
    /\ \A c \in Conns : pc[c] = "reading"
    /\ shutdown' = shutdown_clean_task(shutdown)
    /\ permit' = TRUE
    /\ UNCHANGED <<entries, expirations, reaper, clock, pc, resp, obs>>
    /\ UNCHANGED psVars
    /\ UNCHANGED <<hVars, srvVars>>
    /\ UNCHANGED ioVars

KVNext ==
    \/ \E c \in Conns, k \in Keys, v \in Values, e \in Expires : Set(c, k, v, e)
    \/ \E c \in Conns, k \in Keys : Get(c, k)
    \/ ReaperPass
    \/ ReaperWake
    \/ Tick
    \/ ShutdownCleanTask

KVSpec == Init /\ [][KVNext]_vars

\* ------------------------------------------------- SUBSCRIBE and PUBLISH
\* Handler::run reads SUBSCRIBE in normal mode: Subscribe::apply starts with an
\* empty StreamMap and enters its loop.
SubscribeCmd(c, chs) ==
    /\ pc[c] = "reading"
    /\ ~shutdown
    /\ ncmd < MaxCmds
    /\ ncmd' = ncmd + 1
    /\ chans' = [chans EXCEPT ![c] = chs]
    /\ subs' = [subs EXCEPT ![c] = <<>>]
    /\ idx' = [idx EXCEPT ![c] = 1]
    /\ pc' = [pc EXCEPT ![c] = "subscribe"]
    /\ psobs' = [psobs EXCEPT !.unsub[c] = @ \ Range(chs), !.exited[c] = FALSE]
    /\ UNCHANGED <<pub_sub, newrx, out, npub, resp>>
    /\ UNCHANGED kvVars
    /\ UNCHANGED <<hVars, srvVars>>
    /\ UNCHANGED ioVars

\* subscribe_to_channel, line 165: Database::subscribe under the state lock
\* gets or creates the Sender and returns a new Receiver.
DbSubscribe(c) ==
    /\ pc[c] = "subscribe"
    /\ pub_sub' = pub_sub \cup {chans[c][idx[c]]}
    /\ newrx' = [newrx EXCEPT ![c] = Some(Receiver(chans[c][idx[c]]))]
    /\ pc' = [pc EXCEPT ![c] = "insert"]
    /\ UNCHANGED <<chans, idx, subs, out, ncmd, npub, psobs, resp>>
    /\ UNCHANGED kvVars
    /\ UNCHANGED <<hVars, srvVars>>
    /\ UNCHANGED ioVars

\* subscribe_to_channel, lines 168-185: the stream replaces the StreamMap entry
\* of the channel (dropping the old Receiver) and the response is written;
\* then the `for` loop of Subscribe::apply goes on, or the select! is reached.
InsertAck(c) ==
    /\ pc[c] = "insert"
    /\ LET sm == StreamMapInsert(subs[c], newrx[c][1]) IN
       /\ subs' = [subs EXCEPT ![c] = sm]
       /\ out' = [out EXCEPT ![c] = Append(@, SubscribeFrame(newrx[c][1].chan, Len(sm)))]
    /\ newrx' = [newrx EXCEPT ![c] = None]
    /\ idx' = [idx EXCEPT ![c] = @ + 1]
    /\ pc' = [pc EXCEPT ![c] = IF idx[c] < Len(chans[c]) THEN "subscribe" ELSE "select"]
    /\ UNCHANGED <<pub_sub, chans, ncmd, npub, psobs, resp>>
    /\ UNCHANGED kvVars
    /\ UNCHANGED <<hVars, srvVars>>
    /\ UNCHANGED ioVars

\* the position Subscribe::apply's `loop` restarts from: the `for` over
\* self.channels, which the loop never empties
LoopTop(c, chs) == IF chs = <<>> THEN "select" ELSE "subscribe"

\* select!, first branch: a message from one of the streams is written.
DeliverMessage(c, i) ==
    /\ pc[c] = "select"
    /\ i \in 1 .. Len(subs[c])
    /\ subs[c][i].q # <<>>
    /\ out' = [out EXCEPT ![c] = Append(@, MessageFrame(subs[c][i].chan, Head(subs[c][i].q)))]
    /\ subs' = [subs EXCEPT ![c][i].q = Tail(@)]
    /\ psobs' = [psobs EXCEPT !.owed[c] = @ \ {<<subs[c][i].chan, Head(subs[c][i].q)>>},
                              !.other[c] = None]
    /\ idx' = [idx EXCEPT ![c] = 1]
    /\ pc' = [pc EXCEPT ![c] = LoopTop(c, chans[c])]
    /\ UNCHANGED <<pub_sub, chans, newrx, ncmd, npub, resp>>
    /\ UNCHANGED kvVars
    /\ UNCHANGED <<hVars, srvVars>>
    /\ UNCHANGED ioVars

\* select!, second branch, handle_command: SUBSCRIBE extends self.channels.
RecvSubscribe(c, chs) ==
    /\ pc[c] = "select"
    /\ ncmd < MaxCmds
    /\ ncmd' = ncmd + 1
    /\ chans' = [chans EXCEPT ![c] = @ \o chs]
    /\ psobs' = [psobs EXCEPT !.unsub[c] = @ \ Range(chs), !.unsuball[c] = None,
                              !.other[c] = None]
    /\ idx' = [idx EXCEPT ![c] = 1]
    /\ pc' = [pc EXCEPT ![c] = LoopTop(c, chans'[c])]
    /\ UNCHANGED <<pub_sub, newrx, subs, out, npub, resp>>
    /\ UNCHANGED kvVars
    /\ UNCHANGED <<hVars, srvVars>>
    /\ UNCHANGED ioVars

\* handle_command, lines 201-216: the channels to leave (all keys of the
\* StreamMap when none is named), then per channel the removal and a response.
UnsubscribeTargets(sm, chs) == IF chs = <<>> THEN StreamMapKeys(sm) ELSE chs

RECURSIVE UnsubscribeAll(_, _, _)
UnsubscribeAll(sm, o, chs) ==
    IF chs = <<>> THEN [subs |-> sm, out |-> o]
    ELSE LET sm1 == StreamMapRemove(sm, Head(chs)) IN
         UnsubscribeAll(sm1, Append(o, UnsubscribeFrame(Head(chs), Len(sm1))), Tail(chs))

RecvUnsubscribe(c, chs) ==
    /\ pc[c] = "select"
    /\ ncmd < MaxCmds
    /\ ncmd' = ncmd + 1
    /\ LET targets == UnsubscribeTargets(subs[c], chs)
           r == UnsubscribeAll(subs[c], out[c], targets) IN
       /\ subs' = [subs EXCEPT ![c] = r.subs]
       /\ out' = [out EXCEPT ![c] = r.out]
       /\ psobs' = [psobs EXCEPT
             !.unsub[c] = @ \cup Range(targets),
             !.owed[c] = {p \in @ : p[1] \notin Range(targets)},
             !.unsuball[c] = IF chs = <<>>
                             THEN Some([n |-> Len(subs[c]), at |-> Len(out[c])])
                             ELSE None,
             !.other[c] = None]
    /\ idx' = [idx EXCEPT ![c] = 1]
    /\ pc' = [pc EXCEPT ![c] = LoopTop(c, chans[c])]
    /\ UNCHANGED <<pub_sub, chans, newrx, npub, resp>>
    /\ UNCHANGED kvVars
    /\ UNCHANGED <<hVars, srvVars>>
    /\ UNCHANGED ioVars

\* handle_command, lines 217-220: any other command is answered by Unknown
\* under Command::get_name.  handle_command has no arm for ExitSubscribe, so
\* the sentinel falls into this arm too.
OtherNames == {"set", ExitSubscribeName}

RecvOther(c, name) ==
    /\ pc[c] = "select"
    /\ ncmd < MaxCmds
    /\ ncmd' = ncmd + 1
    /\ out' = [out EXCEPT ![c] = Append(@, Error(UnknownText(name)))]
    /\ psobs' = [psobs EXCEPT
          !.unsuball[c] = None,
          !.other[c] = Some([at |-> Len(out[c]), name |-> name,
                             keys |-> Range(StreamMapKeys(subs[c]))]),
          !.exited[c] = @ \/ name = ExitSubscribeName]
    /\ idx' = [idx EXCEPT ![c] = 1]
    /\ pc' = [pc EXCEPT ![c] = LoopTop(c, chans[c])]
    /\ UNCHANGED <<pub_sub, chans, newrx, subs, npub, resp>>
    /\ UNCHANGED kvVars
    /\ UNCHANGED <<hVars, srvVars>>
    /\ UNCHANGED ioVars

\* The client closes the socket: read_frame yields None, Subscribe::apply and
\* Handler::run return, and the StreamMap with its receivers is dropped.
Close(c) ==
    /\ pc[c] = "select"
    /\ subs' = [subs EXCEPT ![c] = <<>>]
    /\ pc' = [pc EXCEPT ![c] = "closed"]
    /\ psobs' = [psobs EXCEPT !.owed[c] = {}, !.unsub[c] = {}, !.unsuball[c] = None,
                              !.other[c] = None]
    /\ UNCHANGED <<pub_sub, chans, idx, newrx, out, ncmd, npub, resp>>
    /\ UNCHANGED kvVars
    /\ UNCHANGED <<hVars, srvVars>>
    /\ UNCHANGED ioVars

\* Publish::apply: Database::publish under the state lock, then Integer(n).
\* The payload is the number of the message.
Publish(c, ch) ==
    /\ pc[c] = "reading"
    /\ ~shutdown
    /\ ncmd < MaxCmds
    /\ npub < MaxPub
    /\ ncmd' = ncmd + 1
    /\ npub' = npub + 1
    /\ resp' = Integer(publish(ch))
    /\ IF ch \in pub_sub
       THEN /\ subs' = [x \in Conns |-> Sent(subs[x], ch, npub + 1)]
            /\ newrx' = [x \in Conns |->
                  IF Pending(x, ch) THEN Some([newrx[x][1] EXCEPT !.q = Push(@, npub + 1)])
                  ELSE newrx[x]]
       ELSE UNCHANGED <<subs, newrx>>
    /\ psobs' = [psobs EXCEPT
          !.owed = [x \in Conns |->
              IF pc[x] # "closed" /\ Acked(out[x], ch) THEN @[x] \cup {<<ch, npub + 1>>} ELSE @[x]],
          !.lastpub = Some([chan |-> ch, n |-> publish(ch),
                            holders |-> {x \in Conns : Positions(subs[x], ch) # {}},
                            fresh |-> {x \in Conns : Pending(x, ch)},
                            stale |-> {x \in Conns : ch \in psobs.unsub[x] /\ RxOf(x, ch) > 0}])]
    /\ UNCHANGED <<pub_sub, chans, idx, out, pc>>
    /\ UNCHANGED kvVars
    /\ UNCHANGED <<hVars, srvVars>>
    /\ UNCHANGED ioVars

PSNext ==
    \/ \E c \in Conns, chs \in SubLists : SubscribeCmd(c, chs)
    \/ \E c \in Conns : DbSubscribe(c)
    \/ \E c \in Conns : InsertAck(c)
    \/ \E c \in Conns, i \in 1 .. 2 : DeliverMessage(c, i)
    \/ \E c \in Conns, chs \in SubLists : RecvSubscribe(c, chs)
    \/ \E c \in Conns, chs \in UnsubLists : RecvUnsubscribe(c, chs)
    \/ \E c \in Conns, name \in OtherNames : RecvOther(c, name)
    \/ \E c \in Conns : Close(c)
    \/ \E c \in Conns, ch \in Channels : Publish(c, ch)

\* pub/sub does not read the keyspace: the store starts without a snapshot file
PSSpec == InitWith(None) /\ [][PSNext]_vars

\* ------------------------------------------- request frames and decoding
\* A request is an Array of Bulk strings (array = TRUE, its words) or a frame
\* of another type (array = FALSE).
Req(words) == [array |-> TRUE, words |-> words]
NotArray == [array |-> FALSE, words |-> <<"GET">>]

\* str::to_lowercase on the words the clients send
ToLower(w) ==
    CASE w = "GET" -> "get" [] w = "SET" -> "set" [] w = "DEL" -> "del"
      [] w = "PING" -> "ping" [] w = "SAVE" -> "save" [] w = "PUBLISH" -> "publish"
      [] w = "SUBSCRIBE" -> "subscribe" [] w = "UNSUBSCRIBE" -> "unsubscribe"
      [] w = "EXITSUBSCRIBE" -> ExitSubscribeName
      [] w = "FOO" -> "foo" [] w = "EX" -> "ex" [] w = "PX" -> "px" [] w = "XX" -> "xx"
      [] OTHER -> w

\* atoi::<u64>
IsInt(w) == w \in {"0", "1"}
IntOf(w) == IF w = "1" THEN 1 ELSE 0

DecodeErr == [ok |-> FALSE, kind |-> "", name |-> "", args |-> <<>>, expire |-> None]
DecodeOk(kind, name, args, expire) ==
    [ok |-> TRUE, kind |-> kind, name |-> name, args |-> args, expire |-> expire]

\* a decoder that takes exactly the arguments `n` allows, followed by
\* Parse::is_finish
Fixed(kind, a, n) == IF Len(a) \in n THEN DecodeOk(kind, kind, a, None) ELSE DecodeErr

\* variant of the SET decoder that skips an option it does not know
decode_set_skip_option(a) ==
    IF Len(a) < 2 THEN DecodeErr
    ELSE IF Len(a) = 2 \/ ToLower(a[3]) \notin {"ex", "px"}
    THEN DecodeOk("set", "set", SubSeq(a, 1, 2), None)
    ELSE IF Len(a) # 4 \/ ~IsInt(a[4]) THEN DecodeErr
    ELSE DecodeOk("set", "set", SubSeq(a, 1, 2),
                  Some(IF ToLower(a[3]) = "ex" THEN IntOf(a[4]) * MsPerSec ELSE IntOf(a[4])))

\* Set::decode_set_from_frame, then Parse::is_finish
decode_set_from_frame(a) ==
    IF Len(a) < 2 THEN DecodeErr
    ELSE IF Len(a) = 2 THEN DecodeOk("set", "set", a, None)
    ELSE IF ToLower(a[3]) \notin {"ex", "px"} THEN DecodeErr
    ELSE IF Len(a) # 4 \/ ~IsInt(a[4]) THEN DecodeErr
    ELSE DecodeOk("set", "set", SubSeq(a, 1, 2),
                  Some(IF ToLower(a[3]) = "ex" THEN IntOf(a[4]) * MsPerSec ELSE IntOf(a[4])))

\* ExitSubscribe::decode_exit_subscribe_from_frame: the sentinel carries no argument
decode_exit_subscribe_from_frame(a) == Fixed(ExitSubscribeName, a, {0})

\* Command::decode_cmd_from_frame
decode_cmd_from_frame(f) ==
    IF ~f.array \/ f.words = <<>> THEN DecodeErr
    ELSE LET cmd_name == ToLower(f.words[1])
             a == Tail(f.words) IN
         CASE cmd_name = "get" -> Fixed("get", a, {1})
           [] cmd_name = "ping" -> Fixed("ping", a, {0, 1})
           [] cmd_name = "publish" -> Fixed("publish", a, {2})
           [] cmd_name = "set" -> decode_set_from_frame(a)
           [] cmd_name = "subscribe" -> Fixed("subscribe", a, 1 .. Len(a))
           [] cmd_name = "unsubscribe" -> Fixed("unsubscribe", a, {Len(a)})
           [] cmd_name = ExitSubscribeName -> decode_exit_subscribe_from_frame(a)
           [] cmd_name = "save" -> Fixed("save", a, {0})
           [] cmd_name = "del" -> Fixed("del", a, {1})
           [] OTHER -> DecodeOk("unknown", cmd_name, <<>>, None)

\* Requests the clients send.  The first connection sends well-formed and
\* malformed requests of every verb, the second writes the same key and
\* publishes on the same channel.
Requests(c) ==
    IF c = "c1"
    THEN { Req(<<"SET", "k1", "v1">>), Req(<<"GET", "k1">>), Req(<<"DEL", "k1">>),
           Req(<<"PING">>), Req(<<"SAVE">>), Req(<<"PUBLISH", "a", "m">>),
           Req(<<"FOO", "hello">>), Req(<<"SUBSCRIBE", "a">>), Req(<<"UNSUBSCRIBE">>),
           Req(<<"EXITSUBSCRIBE">>),
           Req(<<"GET">>), Req(<<"SUBSCRIBE">>), NotArray,
           Req(<<"SET", "k1", "v1", "XX", "1">>), Req(<<"SET", "k1", "v1", "EX", "x">>) }
    ELSE { Req(<<"SET", "k1", "v2">>), Req(<<"PUBLISH", "a", "m">>) }

\* --------------------------------------------- Handler::run, frame by frame
Running(c) == pc[c] \in {"reading", "dispatch", "subscribe", "insert", "select"}

RECURSIVE Total(_, _)
Total(S, f) == IF S = {} THEN 0 ELSE LET x == CHOOSE y \in S : TRUE IN f[x] + Total(S \ {x}, f)

\* The client writes a request to its socket; k numbers the requests of the
\* connection.
ClientSend(c, f) ==
    /\ Running(c)
    /\ Total(Conns, sent) < MaxFrames
    /\ sent' = [sent EXCEPT ![c] = @ + 1]
    /\ inq' = [inq EXCEPT ![c] = Append(@, [k |-> sent[c] + 1, f |-> f])]
    /\ UNCHANGED <<pc, resp, cur, hist, srvVars>>
    /\ UNCHANGED <<kvVars, psVars>>
    /\ UNCHANGED ioVars

\* variant of read_frame that returns the frame received last
NewestFrame(q) == q[Len(q)]

\* Connection::read_frame: the first complete frame of the buffer
NextFrame(q) == Head(q)

\* Handler::run, lines 57-70: the select! yields a frame
ReadFrame(c) ==
    /\ pc[c] = "reading"
    /\ inq[c] # <<>>
    /\ cur' = [cur EXCEPT ![c] = Some(NextFrame(inq[c]))]
    /\ inq' = [inq EXCEPT ![c] = Tail(@)]
    /\ pc' = [pc EXCEPT ![c] = "dispatch"]
    /\ UNCHANGED <<resp, sent, hist, srvVars>>
    /\ UNCHANGED <<kvVars, psVars>>
    /\ UNCHANGED ioVars

\* The client closes the socket: read_frame yields None and Handler::run returns.
HangUp(c) ==
    /\ pc[c] = "reading"
    /\ inq[c] = <<>>
    /\ pc' = [pc EXCEPT ![c] = "closed"]
    /\ UNCHANGED <<resp, hVars, srvVars>>
    /\ UNCHANGED <<kvVars, psVars>>
    /\ UNCHANGED ioVars

\* variant of Database::del that leaves `expirations` alone
delEntryOnly(k) == [entries |-> MapRemove(entries, k), expirations |-> expirations]

\* Database::del: the entry of the key and its pair in `expirations` go
del(k) == [entries |-> MapRemove(entries, k),
           expirations |-> RemovePrev(expirations, entries, k)]

\* variant of the response of DEL that tells whether the key existed
DelResponseCount(k) == IF k \in DOMAIN entries THEN Simple("OK") ELSE Integer(0)

\* Del::apply: the response does not depend on the key
DelResponse(k) == Simple("OK")

\* Command::apply in normal mode: the values the command leaves behind, the
\* frame it writes (NoFrame: none) and where the handler goes next.
Outcome(cmd) ==
    LET base == [entries |-> entries, expirations |-> expirations, permit |-> permit,
                 subs |-> subs, newrx |-> newrx, npub |-> npub, snapshot |-> snapshot,
                 frame |-> NoFrame, next |-> "reading"] IN
    CASE cmd.kind = "get" -> [base EXCEPT !.frame = GetResponse(cmd.args[1])]
      [] cmd.kind = "set" ->
            LET expire_at == ExpireAt(cmd.expire)
                k == cmd.args[1] IN
            [base EXCEPT
                !.entries = MapInsert(entries, k, Entry(cmd.args[2], expire_at)),
                !.expirations = InsertNew(RemovePrev(expirations, entries, k), expire_at, k),
                !.permit = permit \/ NotifyNeeded(expirations, expire_at),
                !.frame = Simple("OK")]
      [] cmd.kind = "del" ->
            [base EXCEPT !.entries = del(cmd.args[1]).entries,
                         !.expirations = del(cmd.args[1]).expirations,
                         !.frame = DelResponse(cmd.args[1])]
      [] cmd.kind = "ping" ->
            [base EXCEPT !.frame = IF cmd.args = <<>> THEN Simple("PONG") ELSE Bulk(cmd.args[1])]
      [] cmd.kind = "save" ->
            [base EXCEPT !.snapshot = Some(entries), !.frame = Simple("OK")]
      [] cmd.kind = "publish" ->
            LET ch == cmd.args[1] IN
            [base EXCEPT
                !.subs = IF ch \in pub_sub
                         THEN [x \in Conns |-> Sent(subs[x], ch, npub + 1)] ELSE subs,
                !.newrx = IF ch \in pub_sub
                          THEN [x \in Conns |->
                                  IF Pending(x, ch)
                                  THEN Some([newrx[x][1] EXCEPT !.q = Push(@, npub + 1)])
                                  ELSE newrx[x]]
                          ELSE newrx,
                !.npub = npub + 1,
                !.frame = Integer(publish(ch))]
      [] cmd.kind = "unknown" -> [base EXCEPT !.frame = Error(UnknownText(cmd.name))]
      [] cmd.kind = "subscribe" -> [base EXCEPT !.next = "subscribe"]
      [] cmd.kind = "unsubscribe" -> [base EXCEPT !.next = "error"]
      [] OTHER -> base

\* Handler::run, lines 72-78: decode_cmd_from_frame(frame)? and
\* cmd.apply(..).await?; an Err leaves Handler::run and the connection is
\* dropped.  hist records, per request, the frame written in answer to it.
Dispatch(c) ==
    /\ pc[c] = "dispatch"
    /\ LET item == cur[c][1]
           cmd == decode_cmd_from_frame(item.f)
           r == IF cmd.ok THEN Outcome(cmd) ELSE [Outcome(cmd) EXCEPT !.next = "error"] IN
       /\ entries' = r.entries
       /\ expirations' = r.expirations
       /\ permit' = r.permit
       /\ npub' = r.npub
       /\ newrx' = r.newrx
       /\ snapshot' = r.snapshot
       /\ subs' = IF r.next = "subscribe" THEN [r.subs EXCEPT ![c] = <<>>] ELSE r.subs
       /\ chans' = IF r.next = "subscribe" THEN [chans EXCEPT ![c] = cmd.args] ELSE chans
       /\ idx' = IF r.next = "subscribe" THEN [idx EXCEPT ![c] = 1] ELSE idx
       /\ resp' = IF r.frame = NoFrame THEN resp ELSE r.frame
       /\ hist' = [hist EXCEPT ![c] = Append(@, [k |-> item.k, req |-> item.f, frame |-> r.frame])]
       /\ pc' = [pc EXCEPT ![c] = r.next]
    /\ cur' = [cur EXCEPT ![c] = None]
    /\ UNCHANGED <<pub_sub, shutdown, reaper, clock, obs, out, ncmd, psobs, inq, sent, run_pc, lsn, busy>>
    /\ UNCHANGED ioVars

\* Subscribe::apply, select!, second branch with the request taken from the
\* socket: handle_command(frame, ..)?
SubHandle(c) ==
    /\ pc[c] = "select"
    /\ inq[c] # <<>>
    /\ inq' = [inq EXCEPT ![c] = Tail(@)]
    /\ LET cmd == decode_cmd_from_frame(NextFrame(inq[c]).f) IN
       IF ~cmd.ok
       THEN /\ pc' = [pc EXCEPT ![c] = "error"]
            /\ subs' = [subs EXCEPT ![c] = <<>>]
            /\ UNCHANGED <<chans, out, idx>>
       ELSE /\ idx' = [idx EXCEPT ![c] = 1]
            /\ chans' = IF cmd.kind = "subscribe"
                        THEN [chans EXCEPT ![c] = @ \o cmd.args] ELSE chans
            /\ pc' = [pc EXCEPT ![c] = LoopTop(c, chans'[c])]
            /\ IF cmd.kind = "subscribe" THEN UNCHANGED <<subs, out>>
               ELSE IF cmd.kind = "unsubscribe"
               THEN LET r == UnsubscribeAll(subs[c], out[c],
                                            UnsubscribeTargets(subs[c], cmd.args)) IN
                    /\ subs' = [subs EXCEPT ![c] = r.subs]
                    /\ out' = [out EXCEPT ![c] = r.out]
               ELSE /\ out' = [out EXCEPT ![c] = Append(@, Error(UnknownText(cmd.name)))]
                    /\ UNCHANGED subs
    /\ UNCHANGED <<pub_sub, newrx, ncmd, npub, psobs, resp, sent, cur, hist, srvVars>>
    /\ UNCHANGED kvVars
    /\ UNCHANGED ioVars

DispNext ==
    \/ \E c \in Conns : \E f \in Requests(c) : ClientSend(c, f)
    \/ \E c \in Conns : ReadFrame(c)
    \/ \E c \in Conns : Dispatch(c)
    \/ \E c \in Conns : HangUp(c)
    \/ \E c \in Conns : DbSubscribe(c)
    \/ \E c \in Conns : InsertAck(c)
    \/ \E c \in Conns, i \in 1 .. 2 : DeliverMessage(c, i)
    \/ \E c \in Conns : SubHandle(c)

\* command dispatch of accepted connections on a store started without a
\* snapshot file
DispSpec == InitWith(None) /\ [][DispNext]_vars

\* Requests of known verbs that the decoders reject: an argument is missing,
\* tokens follow the last argument, the option of SET is unknown, the TTL is
\* not a number
Malformed ==
    { Req(<<"GET">>), Req(<<"GET", "k1", "k2">>), Req(<<"SET", "k1">>),
      Req(<<"SET", "k1", "v2", "XX", "1">>), Req(<<"SET", "k1", "v2", "EX", "x">>),
      Req(<<"SET", "k1", "v2", "EX", "1", "1">>), Req(<<"PUBLISH", "a">>),
      Req(<<"DEL", "k1", "k2">>) }

\* The first connection writes a key, subscribes and sends malformed requests;
\* the second publishes.
RejectRequests(c) ==
    IF c = "c1"
    THEN { Req(<<"SET", "k1", "v1", "EX", "1">>), Req(<<"SUBSCRIBE", "a">>) } \cup Malformed
    ELSE { Req(<<"PUBLISH", "a", "m">>) }

RejectNext ==
    \/ \E c \in Conns : \E f \in RejectRequests(c) : ClientSend(c, f)
    \/ \E c \in Conns : ReadFrame(c)
    \/ \E c \in Conns : Dispatch(c)
    \/ \E c \in Conns : DbSubscribe(c)
    \/ \E c \in Conns : InsertAck(c)
    \/ \E c \in Conns : SubHandle(c)

RejectSpec == InitWith(None) /\ [][RejectNext]_vars

\* ----------------------------------------------------- a slow subscriber
\* The first connection is in subscriber mode on "a", at its select!, and has
\* not taken the last `behind` messages out of its receiver: its task was
\* not scheduled, or its writes wait for a client that does not read.  The
\* second connection goes on publishing.
Backlog(n, behind) == [i \in 1 .. behind |-> n - behind + i]

LagInit ==
    /\ KVInitWith(None)
    /\ obs = None
    /\ HInit
    /\ \E behind \in {ChannelCapacity - 1, ChannelCapacity} :
          subs = [c \in Conns |->
                    IF c = "c1" THEN <<[chan |-> "a", q |-> Backlog(ChannelCapacity, behind)]>>
                    ELSE <<>>]
    /\ npub = ChannelCapacity
    /\ pub_sub = {"a"}
    /\ chans = [c \in Conns |-> IF c = "c1" THEN <<"a">> ELSE <<>>]
    /\ idx = [c \in Conns |-> IF c = "c1" THEN 2 ELSE 0]
    /\ newrx = [c \in Conns |-> None]
    /\ out = [c \in Conns |-> IF c = "c1" THEN <<SubscribeFrame("a", 1)>> ELSE <<>>]
    /\ ncmd = 0
    /\ psobs = [owed |-> [c \in Conns |-> {}], unsub |-> [c \in Conns |-> {}],
                lastpub |-> None, unsuball |-> [c \in Conns |-> None],
                other |-> [c \in Conns |-> None], exited |-> [c \in Conns |-> FALSE]]
    /\ pc = [c \in Conns |-> IF c = "c1" THEN "select" ELSE "reading"]
    /\ wire = None
    /\ rdb = None

LagNext ==
    \/ ClientSend("c2", Req(<<"PUBLISH", "a", "m">>))
    \/ ReadFrame("c2")
    \/ Dispatch("c2")
    \/ \E i \in 1 .. 2 : DeliverMessage("c1", i)
    \/ DbSubscribe("c1")
    \/ InsertAck("c1")

LagSpec == LagInit /\ [][LagNext]_vars

\* ------------------------------------------- server::run and the Listener
\* Listener::accept: the first wait, the factor of growth and the longest wait,
\* in seconds
BackoffStart == 1
BackoffFactor == 2
BackoffLimit == 64

\* shutdown_tx has not been dropped: server::run is before its drop(shutdown_tx)
TxAlive == run_pc \in {"select", "save", "drop_tx"}

\* server::run is past drop(shutdown_tx) and has not panicked
TxDropped == run_pc \in {"drop_finish", "drain", "returned"}

\* variant in which `backoff` outlives the call of accept
KeepBackoff(b) == b

\* Listener::accept, `let mut backoff = 1`: every call starts over
ResetBackoff(b) == BackoffStart

\* Listener::accept returns Ok(socket); Listener::run builds the Handler and
\* spawns its task, then calls accept again.
AcceptOk(c) ==
    /\ run_pc = "select"
    /\ lsn.pc = "accept"
    /\ pc[c] = "unconnected"
    /\ pc' = [pc EXCEPT ![c] = "reading"]
    /\ lsn' = [pc |-> "accept", backoff |-> ResetBackoff(lsn.backoff), slept |-> <<>>]
    /\ UNCHANGED <<resp, hVars, snapshot, run_pc, busy>>
    /\ UNCHANGED <<kvVars, psVars>>
    /\ UNCHANGED ioVars

\* Listener::accept, the Err arm: the error is returned when backoff > 64,
\* else the call goes on to sleep.
AcceptFail ==
    /\ run_pc = "select"
    /\ lsn.pc = "accept"
    /\ lsn' = [lsn EXCEPT !.pc = IF lsn.backoff > BackoffLimit THEN "failed" ELSE "sleeping"]
    /\ UNCHANGED <<pc, resp, hVars, snapshot, run_pc, busy>>
    /\ UNCHANGED <<kvVars, psVars>>
    /\ UNCHANGED ioVars

\* Listener::accept: time::sleep(Duration::from_secs(backoff)); backoff *= 2.
\* `slept` lists the waits of the current call.
BackoffSleep ==
    /\ run_pc = "select"
    /\ lsn.pc = "sleeping"
    /\ lsn' = [pc |-> "accept", backoff |-> lsn.backoff * BackoffFactor,
               slept |-> Append(lsn.slept, lsn.backoff)]
    /\ UNCHANGED <<pc, resp, hVars, snapshot, run_pc, busy>>
    /\ UNCHANGED <<kvVars, psVars>>
    /\ UNCHANGED ioVars

\* server::run, select!, first branch: server.run() returned the error of accept
ServerError ==
    /\ run_pc = "select"
    /\ lsn.pc = "failed"
    /\ run_pc' = "save"
    /\ UNCHANGED <<pc, resp, hVars, snapshot, lsn, busy>>
    /\ UNCHANGED <<kvVars, psVars>>
    /\ UNCHANGED ioVars

\* server::run, select!, second branch: the shutdown future completes and the
\* future of server.run() is dropped where it stands.
ShutdownSignal ==
    /\ run_pc = "select"
    /\ run_pc' = "save"
    /\ UNCHANGED <<pc, resp, hVars, snapshot, lsn, busy>>
    /\ UNCHANGED <<kvVars, psVars>>
    /\ UNCHANGED ioVars

\* server.save_rdb() -> Database::save_to_rdb("rustis.rdb"): the keyspace as
\* it is now goes to the file
SaveRdb ==
    /\ run_pc = "save"
    /\ snapshot' = Some(entries)
    /\ run_pc' = "drop_tx"
    /\ UNCHANGED <<pc, resp, hVars, lsn, busy>>
    /\ UNCHANGED <<kvVars, psVars>>
    /\ UNCHANGED ioVars

\* server.save_rdb() returns Err: expect("Failed to save RDB") panics and
\* server::run never returns; the unwinding drops `server`, its senders and
\* its DatabaseWrapper (shutdown_clean_task), while the handlers still run.
SaveRdbFail ==
    /\ run_pc = "save"
    /\ run_pc' = "panicked"
    /\ shutdown' = shutdown_clean_task(shutdown)
    /\ permit' = TRUE
    /\ UNCHANGED <<entries, expirations, reaper, clock, obs, pc, resp, hVars, snapshot, lsn, busy>>
    /\ UNCHANGED psVars
    /\ UNCHANGED ioVars

\* drop(shutdown_tx)
DropShutdownTx ==
    /\ run_pc = "drop_tx"
    /\ run_pc' = "drop_finish"
    /\ busy' = {c \in Conns : pc[c] = "dispatch"}
    /\ UNCHANGED <<pc, resp, hVars, snapshot, lsn>>
    /\ UNCHANGED <<kvVars, psVars>>
    /\ UNCHANGED ioVars

\* drop(shutdown_finish_tx)
DropFinishTx ==
    /\ run_pc = "drop_finish"
    /\ run_pc' = "drain"
    /\ UNCHANGED <<pc, resp, hVars, snapshot, lsn, busy>>
    /\ UNCHANGED <<kvVars, psVars>>
    /\ UNCHANGED ioVars

\* variant of the drain that waits only for the handlers not mid-command
NoHandlerWaiting == \A c \in Conns : pc[c] \notin {"reading", "select"}

\* shutdown_finish_rx.recv() yields None: every clone of shutdown_finish_tx is
\* gone, that is, every spawned Handler has been dropped
AllSendersDropped == \A c \in Conns : ~Running(c)

\* shutdown_finish_rx.recv().await completes and server::run returns; `server`
\* goes out of scope and DatabaseWrapper::drop calls shutdown_clean_task.
DrainClosed ==
    /\ run_pc = "drain"
    /\ AllSendersDropped
    /\ run_pc' = "returned"
    /\ shutdown' = shutdown_clean_task(shutdown)
    /\ permit' = TRUE
    /\ UNCHANGED <<entries, expirations, reaper, clock, obs, pc, resp, hVars, snapshot, lsn, busy>>
    /\ UNCHANGED psVars
    /\ UNCHANGED ioVars

\* Handler::run and Subscribe::apply, select!, the branch of
\* shutdown.receiving(): recv() is ready once shutdown_tx is dropped, the
\* handler returns Ok(()) and is dropped with its StreamMap.
ObserveShutdown(c) ==
    /\ ~TxAlive
    /\ pc[c] \in {"reading", "select"}
    /\ pc' = [pc EXCEPT ![c] = "done"]
    /\ subs' = [subs EXCEPT ![c] = <<>>]
    /\ UNCHANGED <<pub_sub, chans, idx, newrx, out, ncmd, npub, psobs, resp, hVars, srvVars>>
    /\ UNCHANGED kvVars
    /\ UNCHANGED ioVars

\* Requests the clients send while the server is being stopped
SrvRequests(c) ==
    IF c = "c1"
    THEN { Req(<<"SET", "k1", "v1">>), Req(<<"SUBSCRIBE", "a">>) }
    ELSE { Req(<<"PUBLISH", "a", "m">>) }

SrvNext ==
    \/ \E c \in Conns : AcceptOk(c)
    \/ AcceptFail
    \/ BackoffSleep
    \/ ServerError
    \/ ShutdownSignal
    \/ SaveRdb
    \/ SaveRdbFail
    \/ DropShutdownTx
    \/ DropFinishTx
    \/ DrainClosed
    \/ \E c \in Conns : ObserveShutdown(c)
    \/ \E c \in Conns : \E f \in SrvRequests(c) : ClientSend(c, f)
    \/ \E c \in Conns : ReadFrame(c)
    \/ \E c \in Conns : Dispatch(c)
    \/ \E c \in Conns : HangUp(c)
    \/ \E c \in Conns : DbSubscribe(c)
    \/ \E c \in Conns : InsertAck(c)
    \/ \E c \in Conns, i \in 1 .. 2 : DeliverMessage(c, i)
    \/ \E c \in Conns : SubHandle(c)

\* the server from its start, without a snapshot file, until server::run ends
SrvSpec == InitFrom(None, "unconnected") /\ [][SrvNext]_vars

\* Requests that write, delete and read one key, with and without a TTL; the
\* second connection writes and deletes the same key.
DelRequests(c) ==
    IF c = "c1"
    THEN { Req(<<"SET", "k1", "v1">>), Req(<<"SET", "k1", "v1", "EX", "1">>),
           Req(<<"DEL", "k1">>), Req(<<"GET", "k1">>) }
    ELSE { Req(<<"SET", "k1", "v2">>), Req(<<"DEL", "k1">>) }

DelNext ==
    \/ \E c \in Conns : \E f \in DelRequests(c) : ClientSend(c, f)
    \/ \E c \in Conns : ReadFrame(c)
    \/ \E c \in Conns : Dispatch(c)

\* SET, DEL and GET of accepted connections on a store started empty
DelSpec == InitWith(None) /\ [][DelNext]_vars

\* ------------------------------------------------------- the wire codec
\* Frames as the codec sees them: payloads are sequences of bytes, a byte is a
\* one-character string.
FSimple(text) == [kind |-> "simple", text |-> text]
FError(text) == [kind |-> "error", text |-> text]
FInteger(val) == [kind |-> "integer", val |-> val]
FBulk(data) == [kind |-> "bulk", data |-> data]
FNull == [kind |-> "null"]
FArray(items) == [kind |-> "array", items |-> items]

CRLF == <<"\r", "\n">>
DigitBytes == <<"0", "1", "2", "3", "4", "5", "6", "7", "8", "9">>
IsDigit(b) == \E d \in 1 .. 10 : DigitBytes[d] = b
DigitVal(b) == (CHOOSE d \in 1 .. 10 : DigitBytes[d] = b) - 1

\* write!(&mut buf, "{}", val): the decimal digits of val
RECURSIVE Decimal(_)
Decimal(val) ==
    IF val < 10 THEN <<DigitBytes[val + 1]>>
    ELSE Decimal(val \div 10) \o <<DigitBytes[(val % 10) + 1]>>

\* Connection::write_decimal
write_decimal(val) == Decimal(val) \o CRLF

\* what a write leaves on the stream: the bytes, and whether the call returned
\* (ok) or panicked
Wrote(bytes) == [ok |-> TRUE, bytes |-> bytes]
Panicked(bytes) == [ok |-> FALSE, bytes |-> bytes]

\* Connection::write_value; the Array arm is unreachable!()
write_value(frame) ==
    CASE frame.kind = "simple" -> Wrote(<<"+">> \o frame.text \o CRLF)
      [] frame.kind = "error" -> Wrote(<<"-">> \o frame.text \o CRLF)
      [] frame.kind = "integer" -> Wrote(<<":">> \o write_decimal(frame.val))
      [] frame.kind = "null" -> Wrote(<<"$", "-", "1">> \o CRLF)
      [] frame.kind = "bulk" ->
            Wrote(<<"$">> \o write_decimal(Len(frame.data)) \o frame.data \o CRLF)
      [] OTHER -> Panicked(<<>>)

\* the `for item in &**val` loop of write_frame: it ends at the first item
\* whose write_value panics
RECURSIVE WriteItems(_, _)
WriteItems(items, done) ==
    IF items = <<>> THEN Wrote(done)
    ELSE LET w == write_value(Head(items)) IN
         IF w.ok THEN WriteItems(Tail(items), done \o w.bytes)
         ELSE Panicked(done \o w.bytes)

\* Connection::write_frame
write_frame(frame) ==
    IF frame.kind = "array"
    THEN WriteItems(frame.items, <<"*">> \o write_decimal(Len(frame.items)))
    ELSE write_value(frame)

\* outcomes of the cursor functions of frame.rs: `pos` is the position of the
\* next byte to read (from 1)
Incomplete == [st |-> "incomplete"]
Invalid == [st |-> "invalid"]
At(pos) == [st |-> "ok", pos |-> pos]

\* get_line: the bytes from pos up to the first "\r\n"
get_line(src, pos) ==
    LET ends == {i \in pos .. Len(src) - 1 : src[i] = "\r" /\ src[i + 1] = "\n"} IN
    IF ends = {} THEN Incomplete
    ELSE LET i == CHOOSE x \in ends : \A y \in ends : x <= y IN
         [st |-> "ok", line |-> SubSeq(src, pos, i - 1), pos |-> i + 2]

\* atoi::<u64>: the value of the leading digits, None when there is none
RECURSIVE AtoiFrom(_, _)
AtoiFrom(line, acc) ==
    IF line = <<>> \/ ~IsDigit(Head(line)) THEN acc
    ELSE AtoiFrom(Tail(line), acc * 10 + DigitVal(Head(line)))
atoi(line) ==
    IF line = <<>> \/ ~IsDigit(Head(line)) THEN None ELSE Some(AtoiFrom(line, 0))

\* get_decimal
get_decimal(src, pos) ==
    LET l == get_line(src, pos) IN
    IF l.st # "ok" THEN l
    ELSE IF atoi(l.line) = None THEN Invalid
    ELSE [st |-> "ok", val |-> atoi(l.line)[1], pos |-> l.pos]

\* skip
skip(src, pos, n) == IF Len(src) - pos + 1 < n THEN Incomplete ELSE At(pos + n)

\* Frame::check; CheckItems is its `for _ in 0..len` loop
RECURSIVE check(_, _), CheckItems(_, _, _)
check(src, pos) ==
    IF pos > Len(src) THEN Incomplete
    ELSE CASE src[pos] \in {"+", "-"} ->
                LET l == get_line(src, pos + 1) IN IF l.st = "ok" THEN At(l.pos) ELSE l
           [] src[pos] = ":" ->
                LET d == get_decimal(src, pos + 1) IN IF d.st = "ok" THEN At(d.pos) ELSE d
           [] src[pos] = "$" ->
                IF pos + 1 > Len(src) THEN Incomplete
                ELSE IF src[pos + 1] = "-" THEN skip(src, pos + 1, 4)
                ELSE LET d == get_decimal(src, pos + 1) IN
                     IF d.st = "ok" THEN skip(src, d.pos, d.val + 2) ELSE d
           [] src[pos] = "*" ->
                LET d == get_decimal(src, pos + 1) IN
                IF d.st = "ok" THEN CheckItems(src, d.pos, d.val) ELSE d
           [] OTHER -> Invalid
CheckItems(src, pos, n) ==
    IF n = 0 THEN At(pos)
    ELSE LET c == check(src, pos) IN
         IF c.st = "ok" THEN CheckItems(src, c.pos, n - 1) ELSE c

Parsed(frame, pos) == [st |-> "ok", frame |-> frame, pos |-> pos]

\* Frame::parse, called on a prefix that check accepted; ParseItems is its
\* `for _ in 0..len` loop
RECURSIVE parse(_, _), ParseItems(_, _, _, _)
parse(src, pos) ==
    IF pos > Len(src) THEN Incomplete
    ELSE CASE src[pos] = "+" ->
                LET l == get_line(src, pos + 1) IN
                IF l.st = "ok" THEN Parsed(FSimple(l.line), l.pos) ELSE l
           [] src[pos] = "-" ->
                LET l == get_line(src, pos + 1) IN
                IF l.st = "ok" THEN Parsed(FError(l.line), l.pos) ELSE l
           [] src[pos] = ":" ->
                LET d == get_decimal(src, pos + 1) IN
                IF d.st = "ok" THEN Parsed(FInteger(d.val), d.pos) ELSE d
           [] src[pos] = "$" ->
                IF pos + 1 > Len(src) THEN Incomplete
                ELSE IF src[pos + 1] = "-"
                THEN LET l == get_line(src, pos + 1) IN
                     IF l.st # "ok" THEN l
                     ELSE IF l.line # <<"-", "1">> THEN Invalid
                     ELSE Parsed(FNull, l.pos)
                ELSE LET d == get_decimal(src, pos + 1) IN
                     IF d.st # "ok" THEN d
                     ELSE IF Len(src) - d.pos + 1 < d.val + 2 THEN Incomplete
                     ELSE Parsed(FBulk(SubSeq(src, d.pos, d.pos + d.val - 1)),
                                 d.pos + d.val + 2)
           [] src[pos] = "*" ->
                LET d == get_decimal(src, pos + 1) IN
                IF d.st = "ok" THEN ParseItems(src, d.pos, d.val, <<>>) ELSE d
           [] OTHER -> Invalid
ParseItems(src, pos, n, out_items) ==
    IF n = 0 THEN Parsed(FArray(out_items), pos)
    ELSE LET r == parse(src, pos) IN
         IF r.st = "ok" THEN ParseItems(src, r.pos, n - 1, Append(out_items, r.frame)) ELSE r

\* Connection::parse_frame on the read buffer: Ok(Some(frame)) with the buffer
\* advanced past the frame, Ok(None), or Err
parse_frame(buffer) ==
    LET c == check(buffer, 1) IN
    IF c.st = "incomplete" THEN [st |-> "none", buffer |-> buffer]
    ELSE IF c.st = "invalid" THEN [st |-> "err", buffer |-> buffer]
    ELSE LET r == parse(buffer, 1) IN
         IF r.st # "ok" THEN [st |-> "err", buffer |-> buffer]
         ELSE [st |-> "frame", frame |-> r.frame,
               buffer |-> SubSeq(buffer, c.pos, Len(buffer))]

\* The frames written: every variant, texts without line ends, bulks of any
\* bytes (zero-length included), arrays empty, flat and nested.
CodecTexts == {<<>>, <<"O", "K">>, <<"-", "1">>}
CodecBulks == {<<>>, <<"a">>, <<"\r", "\n">>, <<"-", "1">>}
CodecInts == {0, 9, 10, 12345}
CodecLeaves ==
    {FSimple(t) : t \in CodecTexts} \cup {FError(t) : t \in CodecTexts}
        \cup {FInteger(n) : n \in CodecInts} \cup {FBulk(b) : b \in CodecBulks} \cup {FNull}
CodecArrays ==
    {FArray(<<>>)} \cup {FArray(<<x>>) : x \in CodecLeaves}
        \cup {FArray(<<x, y>>) : x \in {FNull, FBulk(<<>>), FInteger(10)}, y \in CodecLeaves}
CodecFrames ==
    CodecLeaves \cup CodecArrays
        \cup {FArray(<<a>>) : a \in {FArray(<<>>), FArray(<<FNull>>)}}
        \cup {FArray(<<FBulk(<<"a">>), FArray(<<FInteger(9)>>)>>)}
\* bytes of a following frame that are already in the buffer
CodecTails == {<<>>, <<"+">>, <<"$", "0">>}

CodecInit ==
    /\ StoreInit(None, "reading")
    /\ rdb = None
    /\ wire \in {[pc |-> "new", f |-> f, out |-> <<>>, back |-> None] : f \in CodecFrames}

\* write_frame(f) on one end of a connection
WriteFrame ==
    /\ wire.pc = "new"
    /\ LET w == write_frame(wire.f) IN
       wire' = [wire EXCEPT !.pc = IF w.ok THEN "written" ELSE "panicked", !.out = w.bytes]
    /\ UNCHANGED <<storeVars, rdb>>

\* parse_frame on the other end, whose buffer holds the bytes written and
\* possibly the first bytes of what follows
ParseFrame ==
    /\ wire.pc = "written"
    /\ \E tail \in CodecTails :
          wire' = [wire EXCEPT !.pc = "parsed",
                               !.back = Some([tail |-> tail, r |-> parse_frame(wire.out \o tail)])]
    /\ UNCHANGED <<storeVars, rdb>>

CodecNext == WriteFrame \/ ParseFrame

CodecSpec == CodecInit /\ [][CodecNext]_vars

\* ------------------------------------------- check and parse on any buffer
\* The buffers: every sequence of at most MaxBuf bytes over tag bytes, a
\* digit, a byte that is neither, and the bytes of the line end
MaxBuf == 5

BufBytes == {"$", "-", "1", "x", "\r", "\n"}

Buffers == UNION {[1 .. n -> BufBytes] : n \in 0 .. MaxBuf}

BufInit ==
    /\ StoreInit(None, "reading")
    /\ rdb = None
    /\ wire \in {[pc |-> "buffer", src |-> b, chk |-> None, prs |-> None] : b \in Buffers}

\* Connection::parse_frame, line 42: Frame::check on a cursor at the start
CheckBuffer ==
    /\ wire.pc = "buffer"
    /\ wire' = [wire EXCEPT !.pc = "checked", !.chk = Some(check(wire.src, 1))]
    /\ UNCHANGED <<storeVars, rdb>>

\* Connection::parse_frame, lines 43-51: Frame::parse from the start again,
\* once check has returned Ok
ParseBuffer ==
    /\ wire.pc = "checked"
    /\ wire.chk[1].st = "ok"
    /\ wire' = [wire EXCEPT !.pc = "parsed", !.prs = Some(parse(wire.src, 1))]
    /\ UNCHANGED <<storeVars, rdb>>

BufNext == CheckBuffer \/ ParseBuffer

BufSpec == BufInit /\ [][BufNext]_vars

\* ------------------------------------------- read_frame and the peer's close
\* The peer writes the frames of `script`, then `partial` (the first bytes of a
\* frame it does not finish), and closes its end.  The bytes reach the socket
\* in pieces of any size.
ConnFrames ==
    {FSimple(<<"O", "K">>), FBulk(<<>>), FNull, FArray(<<FBulk(<<"a">>)>>)}
ConnScripts ==
    {<<>>} \cup {<<f>> : f \in ConnFrames} \cup {<<f, g>> : f, g \in ConnFrames}
Prefixes(bytes) == {SubSeq(bytes, 1, n) : n \in 1 .. Len(bytes) - 1}
ConnPartials ==
    {<<>>} \cup Prefixes(write_frame(FArray(<<FBulk(<<"a">>)>>)).bytes)
           \cup Prefixes(write_frame(FNull).bytes)

RECURSIVE Encoded(_)
Encoded(frames) ==
    IF frames = <<>> THEN <<>> ELSE write_frame(Head(frames)).bytes \o Encoded(Tail(frames))

ConnInit ==
    /\ StoreInit(None, "reading")
    /\ rdb = None
    /\ \E script \in ConnScripts, partial \in ConnPartials :
          wire = [pc |-> "reading", script |-> script, partial |-> partial,
                  towrite |-> Encoded(script) \o partial, stream |-> <<>>, eof |-> FALSE,
                  buffer |-> <<>>, rets |-> <<>>]

\* some of the bytes the peer has still to write arrive at the socket
PeerWrite ==
    /\ wire.towrite # <<>>
    /\ \E n \in 1 .. Len(wire.towrite) :
          wire' = [wire EXCEPT !.stream = @ \o SubSeq(wire.towrite, 1, n),
                               !.towrite = SubSeq(wire.towrite, n + 1, Len(wire.towrite))]
    /\ UNCHANGED <<storeVars, rdb>>

\* the peer closes its end after its last byte
PeerClose ==
    /\ wire.towrite = <<>>
    /\ ~wire.eof
    /\ wire' = [wire EXCEPT !.eof = TRUE]
    /\ UNCHANGED <<storeVars, rdb>>

\* read_frame: parse_frame finds a frame in the buffer (returned to the caller,
\* who calls read_frame again) or fails (the error is returned)
ParseBuffered ==
    /\ wire.pc = "reading"
    /\ LET r == parse_frame(wire.buffer) IN
       /\ r.st # "none"
       /\ wire' = IF r.st = "frame"
                  THEN [wire EXCEPT !.buffer = r.buffer, !.rets = Append(@, Some(r.frame))]
                  ELSE [wire EXCEPT !.pc = "ended", !.rets = Append(@, "invalid")]
    /\ UNCHANGED <<storeVars, rdb>>

\* variant of the end of stream that reports a clean close in every case
EofAlwaysNone(buffer) == "none"

\* read_frame, read_buf returned 0: Ok(None) when the buffer is empty, else the
\* error "reset by peer"
EofResult(buffer) == IF buffer = <<>> THEN "none" ELSE "reset"

\* read_frame: parse_frame returned None and stream.read_buf completes, with
\* the bytes that have arrived or with 0 at the end of the stream
ReadBuf ==
    /\ wire.pc = "reading"
    /\ parse_frame(wire.buffer).st = "none"
    /\ \/ /\ wire.stream # <<>>
          /\ wire' = [wire EXCEPT !.buffer = @ \o wire.stream, !.stream = <<>>]
       \/ /\ wire.stream = <<>>
          /\ wire.eof
          /\ wire' = [wire EXCEPT !.pc = "ended", !.rets = Append(@, EofResult(wire.buffer))]
    /\ UNCHANGED <<storeVars, rdb>>

ConnNext == PeerWrite \/ PeerClose \/ ParseBuffered \/ ReadBuf

ConnSpec == ConnInit /\ [][ConnNext]_vars

\* ------------------------------------------------- rustis.rdb, field by field
\* bincode writes a u64 for a length, a string and a Vec<u8> behind their
\* lengths, an Option as a tag byte followed by the value when the tag is 1.
\* The file is the sequence of these fields.
U64(n) == <<"u64", n>>
Str(x) == <<"str", x>>
Bytes(b) == <<"bytes", b>>
Tag(t) == <<"tag", t>>

\* variant of the Option encoding without the tag byte
OptionFieldsNoTag(o) == IF o = None THEN <<>> ELSE <<U64(o[1])>>

\* Option<u64>
OptionFields(o) == IF o = None THEN <<Tag(0)>> ELSE <<Tag(1), U64(o[1])>>

\* one (String, Entry) pair of the HashMap: the key, then Entry::serialize
\* (data as Vec<u8>, expires_at)
EntryFields(k, e) == <<Str(k), Bytes(e.data)>> \o OptionFields(e.expires_at)

\* the orders in which a HashMap may iterate over its keys
Orders(S) == {o \in [1 .. Cardinality(S) -> S] : \A i, j \in DOMAIN o : o[i] = o[j] => i = j}

RECURSIVE SerializePairs(_, _)
SerializePairs(m, order) ==
    IF order = <<>> THEN <<>>
    ELSE EntryFields(Head(order), m[Head(order)]) \o SerializePairs(m, Tail(order))

\* bincode::serialize_into(file, &state.entries), the map iterated in `order`
Serialize(m, order) == <<U64(Len(order))>> \o SerializePairs(m, order)

Is(file, pos, what) == pos <= Len(file) /\ file[pos][1] = what

\* bincode::deserialize::<HashMap<String, Entry>>: the pairs that follow the
\* length, each through Entry::deserialize, inserted one after the other
RECURSIVE DeserializePairs(_, _, _, _)
DeserializePairs(file, pos, n, acc) ==
    IF n = 0 THEN [ok |-> TRUE, map |-> acc]
    ELSE IF ~(Is(file, pos, "str") /\ Is(file, pos + 1, "bytes") /\ Is(file, pos + 2, "tag"))
    THEN [ok |-> FALSE, map |-> acc]
    ELSE IF file[pos + 2][2] = 0
    THEN DeserializePairs(file, pos + 3, n - 1,
                          MapInsert(acc, file[pos][2], Entry(file[pos + 1][2], None)))
    ELSE IF ~Is(file, pos + 3, "u64") THEN [ok |-> FALSE, map |-> acc]
    ELSE DeserializePairs(file, pos + 4, n - 1,
                          MapInsert(acc, file[pos][2],
                                    Entry(file[pos + 1][2], Some(file[pos + 3][2]))))

Deserialize(file) ==
    IF ~Is(file, 1, "u64") THEN [ok |-> FALSE, map |-> EmptyMap]
    ELSE DeserializePairs(file, 2, file[1][2], EmptyMap)

\* The keyspaces saved: every key absent or holding a value with or without
\* an expiry.
RdbWhens == {None, Some(1), Some(2)}
RdbKeyspaces ==
    UNION {[S -> {Entry(v, w) : v \in Values, w \in RdbWhens}] : S \in SUBSET Keys}
ExpirationsOf(m) ==
    {<<m[k].expires_at[1], k>> : k \in {x \in DOMAIN m : m[x].expires_at # None}}

\* a running store holding keyspace m, its eviction task asleep until the
\* first expiry or waiting for a notification
RdbInit ==
    /\ shutdown = FALSE /\ permit = FALSE /\ clock = 0 /\ resp = NoFrame /\ obs = None
    /\ \E m \in RdbKeyspaces :
          /\ entries = m
          /\ expirations = ExpirationsOf(m)
          /\ reaper = IF ExpirationsOf(m) = {} THEN Task("waiting")
                      ELSE Asleep(First(ExpirationsOf(m))[1], Deadline(First(ExpirationsOf(m))[1]))
    /\ PSInit
    /\ HInit
    /\ pc = [c \in Conns |-> "reading"]
    /\ wire = None
    /\ rdb = [pc |-> "new", file |-> <<>>, saved |-> EmptyMap]

\* Database::save_to_rdb
SaveToRdb ==
    /\ rdb.pc = "new"
    /\ \E order \in Orders(DOMAIN entries) :
          rdb' = [pc |-> "saved", file |-> Serialize(entries, order), saved |-> entries]
    /\ UNCHANGED <<storeVars, wire>>

\* DatabaseWrapper::new after a restart: Database::load_from_rdb, and the
\* store built by Database::new when the file does not deserialize
LoadFromRdb ==
    /\ rdb.pc = "saved"
    /\ LET r == Deserialize(rdb.file)
           db == StoreAfter(IF r.ok THEN Some(r.map) ELSE None) IN
       /\ entries' = db.entries
       /\ reaper' = db.reaper
    /\ expirations' = {}
    /\ rdb' = [rdb EXCEPT !.pc = "loaded"]
    /\ UNCHANGED <<shutdown, permit, clock, obs, psVars, hVars, srvVars, pc, resp, wire>>

RdbNext == SaveToRdb \/ LoadFromRdb

RdbSpec == RdbInit /\ [][RdbNext]_vars

\* ------------------------------------- the store and the end of server::run
\* Requests of every kind that reaches the store
ShutRequests(c) ==
    IF c = "c1"
    THEN { Req(<<"SET", "k1", "v1">>), Req(<<"GET", "k1">>), Req(<<"SAVE">>) }
    ELSE { Req(<<"SUBSCRIBE", "a">>), Req(<<"PUBLISH", "a", "m">>) }

\* Shutdown.is_shutdown of the handler of c: set in receiving(), after which
\* the handler returns
is_shutdown(c) == pc[c] = "done"

ShutNext ==
    \/ \E c \in Conns : AcceptOk(c)
    \/ ShutdownSignal
    \/ SaveRdb
    \/ SaveRdbFail
    \/ DropShutdownTx
    \/ DropFinishTx
    \/ DrainClosed
    \/ \E c \in Conns : ObserveShutdown(c)
    \/ \E c \in Conns : \E f \in ShutRequests(c) : ClientSend(c, f)
    \/ \E c \in Conns : ReadFrame(c)
    \/ \E c \in Conns : Dispatch(c)
    \/ \E c \in Conns : DbSubscribe(c)
    \/ \E c \in Conns : InsertAck(c)
    \/ ReaperPass
    \/ ReaperWake

\* the server with its eviction task, accepting without failures, until
\* server::run ends
ShutSpec == InitFrom(None, "unconnected") /\ [][ShutNext]_vars

\* TTLs above zero: EX 1 and PX 500
PositiveTtls == {e \in Expires : e # None /\ e[1] > 0}

TtlNext ==
    \/ \E c \in Conns, k \in Keys, v \in Values, e \in PositiveTtls : SetWithTtl(c, k, v, e)
    \/ ReaperPass
    \/ ReaperWake
    \/ Tick

\* SETs with a TTL, the eviction task and the clock
TtlSpec == InitWith(None) /\ [][TtlNext]_vars

\* the eviction task on running stores of every keyspace, and the clock
PassNext ==
    \/ ReaperPass
    \/ ReaperWake
    \/ Tick

PassSpec == RdbInit /\ [][PassNext]_vars

\* GET next to SETs of one key, the eviction task and the clock
GetNext ==
    \/ \E c \in Conns, v \in Values, e \in Expires : Set(c, "k1", v, e)
    \/ \E c \in Conns, k \in Keys : Get(c, k)
    \/ ReaperPass
    \/ ReaperWake
    \/ Tick

GetSpec == InitWith(None) /\ [][GetNext]_vars

\* ------------------------------------------------- DatabaseWrapper::new
\* The snapshot file found at startup: missing, or the bytes save_to_rdb
\* wrote for a keyspace.
BootKeyspaces ==
    { EmptyMap,
      [k \in {"k1"} |-> Entry("v1", None)],
      [k \in {"k1"} |-> Entry("v1", Some(1))] }

BootFiles ==
    {[pc |-> "missing", file |-> <<>>, saved |-> EmptyMap]}
        \cup UNION {{[pc |-> "saved", file |-> Serialize(m, o), saved |-> m] :
                         o \in Orders(DOMAIN m)} : m \in BootKeyspaces}

\* `wire` follows the constructor: spare is the eviction task of a Database
\* the wrapper no longer holds, None while there is none.
Boot(p, spare) == [pc |-> p, spare |-> spare]

Built == wire # None /\ wire.pc = "built"

BootInit ==
    /\ entries = EmptyMap /\ expirations = {} /\ reaper = Task("absent")
    /\ shutdown = FALSE /\ permit = FALSE /\ clock = 0 /\ resp = NoFrame
    /\ obs = None
    /\ PSInit
    /\ HInit
    /\ pc = [c \in Conns |-> "reading"]
    /\ wire = Boot("start", None)
    /\ rdb \in BootFiles

\* Database::new(): a fresh Shared, and tokio::spawn(clean_expired_keys) on it
DatabaseNew ==
    /\ wire # None /\ wire.pc = "start"
    /\ reaper' = Task("loop")
    /\ wire' = Boot("created", None)
    /\ UNCHANGED <<entries, expirations, shutdown, permit, clock, pc, resp, obs>>
    /\ UNCHANGED <<psVars, hVars, srvVars, rdb>>

\* database = if let Ok(db) = load_from_rdb(..) { db } else { database }:
\* load_from_rdb builds a Shared of its own from the file and spawns nothing;
\* the Database it replaces is dropped, its task keeps its Arc<Shared>.
LoadReplace ==
    /\ wire # None /\ wire.pc = "created"
    /\ LET r == IF rdb.pc = "missing" THEN [ok |-> FALSE, map |-> EmptyMap]
                ELSE Deserialize(rdb.file) IN
       IF r.ok
       THEN /\ entries' = r.map
            /\ expirations' = {}
            /\ permit' = FALSE
            /\ reaper' = Task("absent")
            /\ wire' = Boot("built", Some(reaper))
       ELSE /\ wire' = Boot("built", None)
            /\ UNCHANGED <<entries, expirations, permit, reaper>>
    /\ UNCHANGED <<shutdown, clock, pc, resp, obs>>
    /\ UNCHANGED <<psVars, hVars, srvVars, rdb>>

\* the task of the replaced Database: its store is empty and nobody holds a
\* handle to it, so its pass finds nothing and it waits on a Notify that is
\* never notified
SpareTask ==
    /\ wire # None /\ wire.spare # None
    /\ wire.spare[1].pc = "loop"
    /\ wire' = [wire EXCEPT !.spare = Some(Task("waiting"))]
    /\ UNCHANGED <<storeVars, rdb>>

BootNext ==
    \/ DatabaseNew
    \/ LoadReplace
    \/ SpareTask
    \/ Built /\ \E c \in Conns, v \in Values, e \in Expires : Set(c, "k1", v, e)
    \/ Built /\ \E c \in Conns : Get(c, "k1")
    \/ ReaperPass
    \/ ReaperWake
    \/ Tick
    \/ Built /\ ShutdownCleanTask

BootSpec == BootInit /\ [][BootNext]_vars

\* ------------------------------- shutdown_clean_task and the eviction task
\* The loop of clean_expired_keys step by step: "loop" is the task at
\* `while !shared.is_shutdown()`, "pass" the task between that test and the
\* call of Shared::clean_expired_keys.  shutdown_clean_task sets the flag
\* under the lock and notifies after releasing it; `wire` follows it and
\* keeps the position the task had when the flag was set.
Dropper(p, at) == [pc |-> p, at_flag |-> at]

ExitInit ==
    /\ \E file \in StartFiles : StoreInit(file, "reading")
    /\ rdb = None
    /\ wire = Dropper("idle", None)

\* Shared::is_shutdown at the head of the loop
IsShutdown ==
    /\ reaper.pc = "loop"
    /\ reaper' = IF shutdown THEN Task("exited") ELSE Task("pass")
    /\ UNCHANGED <<entries, expirations, shutdown, permit, clock, pc, resp, obs>>
    /\ UNCHANGED <<psVars, hVars, srvVars, ioVars>>

\* Shared::clean_expired_keys, then the select! or notified().await it leads to
CleanPass ==
    /\ reaper.pc = "pass"
    /\ IF shutdown
       THEN /\ reaper' = Task("waiting")
            /\ UNCHANGED <<entries, expirations>>
       ELSE LET r == CleanLoop(entries, expirations, NowSecs) IN
            /\ entries' = r.entries
            /\ expirations' = r.expirations
            /\ reaper' = IF r.ret = None THEN Task("waiting")
                         ELSE Asleep(r.ret[1], Deadline(r.ret[1]))
    /\ UNCHANGED <<shutdown, permit, clock, pc, resp, obs>>
    /\ UNCHANGED <<psVars, hVars, srvVars, ioVars>>

\* shutdown_clean_task, lines 194-195
SetFlag ==
    /\ wire # None /\ wire.pc = "idle"
    /\ shutdown' = shutdown_clean_task(shutdown)
    /\ wire' = Dropper("flagged", Some(reaper.pc))
    /\ UNCHANGED <<entries, expirations, permit, reaper, clock, pc, resp, obs>>
    /\ UNCHANGED <<psVars, hVars, srvVars, rdb>>

\* variant of notify_one that wakes a waiting task only and stores nothing
notify_waiting_only(stored) == stored \/ reaper.pc \in {"sleep", "waiting"}

\* Notify::notify_one: the permit is stored until a notified() consumes it
notify_one(stored) == TRUE

\* shutdown_clean_task, line 201
NotifyOne ==
    /\ wire # None /\ wire.pc = "flagged"
    /\ permit' = notify_one(permit)
    /\ wire' = [wire EXCEPT !.pc = "notified"]
    /\ UNCHANGED <<entries, expirations, shutdown, reaper, clock, pc, resp, obs>>
    /\ UNCHANGED <<psVars, hVars, srvVars, rdb>>

ExitNext ==
    \/ \E c \in Conns, v \in Values, e \in Expires : Set(c, "k1", v, e)
    \/ IsShutdown
    \/ CleanPass
    \/ ReaperWake
    \/ Tick
    \/ SetFlag
    \/ NotifyOne

ExitSpec == ExitInit /\ [][ExitNext]_vars

\* the task is scheduled, and shutdown_clean_task runs to its end
FairExitSpec ==
    ExitSpec /\ WF_vars(IsShutdown) /\ WF_vars(CleanPass) /\ WF_vars(ReaperWake)
             /\ WF_vars(NotifyOne)

\* ------------------------------------------- u64 arithmetic of Database::set
\* `now + duration.as_secs()` is an addition of two u64.  The model keeps the
\* word but scales its width to WordBits bits; seconds since the epoch and
\* TTLs range over the whole word.
WordBits == 5

Word == 2 ^ WordBits

MaxWord == Word - 1

\* what the build makes of an overflowing `+`: a build with overflow checks
\* (the dev profile) panics, one without (the release profile) wraps
Builds == {"checked", "wrapping"}

\* u64 `+`: None stands for the panic
AddU64(build, a, b) ==
    IF a + b <= MaxWord THEN Some(a + b)
    ELSE IF build = "checked" THEN None
    ELSE Some((a + b) % Word)

\* a connection's view of the last command it ran against the store
Ran(c, op, result) == [conn |-> c, op |-> op, result |-> result]

SetState(build, now) ==
    [build |-> build, now |-> now, poisoned |-> FALSE, when |-> None,
     set_at |-> 0, last |-> None]

OvfInit ==
    /\ StoreInit(None, "reading")
    /\ rdb = None
    /\ wire \in {SetState(b, n) : b \in Builds, n \in {0, 1}}

\* Database::set with EX secs: the guard of `state` is alive while the expiry
\* is computed, so a panic there unwinds through it and poisons the mutex;
\* `lock().unwrap()` panics at once on a poisoned mutex.
SetExpiry(c, secs) ==
    /\ wire # None
    /\ IF wire.poisoned
       THEN wire' = [wire EXCEPT !.last = Some(Ran(c, "set", "panicked"))]
       ELSE LET when == AddU64(wire.build, wire.now, secs) IN
            IF when = None
            THEN wire' = [wire EXCEPT !.poisoned = TRUE,
                                      !.last = Some(Ran(c, "set", "panicked"))]
            ELSE wire' = [wire EXCEPT !.when = when, !.set_at = wire.now,
                                      !.last = Some(Ran(c, "set", "ok"))]
    /\ UNCHANGED <<storeVars, rdb>>

\* Database::get, and every other operation that starts with lock().unwrap()
LockState(c) ==
    /\ wire # None
    /\ wire' = [wire EXCEPT !.last =
                   Some(Ran(c, "get", IF wire.poisoned THEN "panicked" ELSE "ok"))]
    /\ UNCHANGED <<storeVars, rdb>>

SecondPasses ==
    /\ wire # None
    /\ wire.now < MaxWord
    /\ wire' = [wire EXCEPT !.now = wire.now + 1]
    /\ UNCHANGED <<storeVars, rdb>>

\* EX arguments: small ones and the largest the decoder accepts
ExpirySecs == {0, 1, MaxWord - 1, MaxWord}

OvfNext ==
    \/ \E c \in Conns, secs \in ExpirySecs : SetExpiry(c, secs)
    \/ \E c \in Conns : LockState(c)
    \/ SecondPasses

OvfSpec == OvfInit /\ [][OvfNext]_vars

\* The runtime keeps polling a task that is ready, and time passes.
FairKVSpec ==
    KVSpec /\ WF_vars(ReaperPass) /\ WF_vars(ReaperWake) /\ WF_vars(Tick)

\* ------------------------------------------------------------ properties
PairsOf(exps, k) == {p \in exps : p[2] = k}
Whens == 0 .. (MaxClock \div MsPerSec + 1)

\* C1: a pair (t, k) is in `expirations` if and only if entries[k] exists with
\* expires_at = Some(t), in every reachable state of the store.
C1_ExpirationsIffExpiry ==
    /\ \A p \in expirations :
          p[2] \in DOMAIN entries /\ entries[p[2]].expires_at = Some(p[1])
    /\ \A k \in DOMAIN entries :
          entries[k].expires_at # None => <<entries[k].expires_at[1], k>> \in expirations

\* C5: a key written by SET with a TTL of t seconds and not overwritten is
\* eventually removed by the eviction task once its expiry has passed (the
\* task is given until the end of the second after the expiry), as long as
\* the server is running.
C5_ExpiredKeyEventuallyRemoved ==
    \A k \in Keys : \A t \in Whens :
        (<<t, k>> \in expirations /\ clock >= (t + 1) * MsPerSec /\ ~shutdown)
            ~> (<<t, k>> \notin expirations \/ shutdown)

\* C6: when a connection's SET k v without TTL is followed on that connection
\* by GET k and no other connection wrote k in between, the GET answers
\* Bulk(v); a GET of a key that is not in the keyspace answers Null.
C6_GetAfterSet ==
    [][/\ (obs # None /\ ~obs[1].ttl /\ ~obs[1].got /\ obs' # None /\ obs'[1].got)
             => resp' = Bulk(obs[1].val)
       /\ \A c \in Conns : \A k \in Keys \ DOMAIN entries :
             Get(c, k) => resp' = Null]_vars

C6_Witness ==
    /\ obs # None /\ obs[1].got /\ ~obs[1].ttl
    /\ resp = Bulk(obs[1].val)

\* C7: SET replaces the entry of the key together with its expiry: whenever a
\* step writes entries[k] (only SET does), `expirations` afterwards holds no
\* pair for k when the new entry has no expiry and exactly the pair of the new
\* expiry when it has one; and a pass of the eviction task never removes a key
\* whose entry has no expiry.
C7_SetReplacesExpiry ==
    [][/\ \A k \in DOMAIN entries' :
             (k \notin DOMAIN entries \/ entries'[k] # entries[k]) =>
                 PairsOf(expirations', k) =
                    (IF entries'[k].expires_at = None THEN {}
                     ELSE {<<entries'[k].expires_at[1], k>>})
       /\ (reaper.pc = "loop" /\ reaper'.pc # "loop") =>
             \A k \in DOMAIN entries :
                 entries[k].expires_at = None => k \in DOMAIN entries']_vars

C7_Witness ==
    /\ obs # None /\ obs[1].hadTtl /\ ~obs[1].ttl /\ ~obs[1].got
    /\ entries[obs[1].key] = Entry(obs[1].val, None)
    /\ PairsOf(expirations, obs[1].key) = {}

\* C8: the eviction task is never asleep on a deadline later than the earliest
\* pending expiry, nor waiting for a notification while `expirations` is
\* non-empty, unless a wake-up is pending.
C8_ReaperNotStranded ==
    /\ (reaper.pc = "sleep" /\ expirations # {} /\ ~permit)
          => reaper.when <= First(expirations)[1]
    /\ (reaper.pc = "waiting" /\ ~permit) => expirations = {}

C8_Witness ==
    /\ reaper.pc = "sleep" /\ permit /\ ~shutdown
    /\ expirations # {} /\ First(expirations)[1] < reaper.when

\* -------------------------------------------------- pub/sub properties
IsSubscribeFrame(f) == f[1] = "subscribe"
SubscribeChannels(o) ==
    LET s == SelectSeq(o, IsSubscribeFrame) IN [i \in 1 .. Len(s) |-> s[i][2]]

\* C2: every message published on a channel while a connection's SUBSCRIBE to
\* it stands acknowledged (not unsubscribed, not closed) is written to that
\* connection as a `message` frame: once the connection waits in its select!
\* with no message ready in any of its streams, none of them is outstanding.
C2_AllPublishedDelivered ==
    \A c \in Conns :
        (pc[c] = "select" /\ \A i \in 1 .. Len(subs[c]) : subs[c][i].q = <<>>)
            => psobs.owed[c] = {}

\* C3: a connection writes `subscribe` frames only in reply to SUBSCRIBE, one
\* per channel named, in the order named: whenever it waits in its select!, the
\* channels of the `subscribe` frames it has written are the channels its
\* SUBSCRIBE commands named, in that order.
C3_SubscribeFramesOnlyForCommands ==
    \A c \in Conns :
        pc[c] = "select" => SubscribeChannels(out[c]) = chans[c]

\* C4: a connection that has written the `unsubscribe` response for a channel
\* and has not named it in a later SUBSCRIBE is not counted by a PUBLISH on
\* that channel.
C4_UnsubscribedNotCounted ==
    psobs.lastpub # None => psobs.lastpub[1].stale = {}

C10_UnsubscribeAllEmpties ==
    \A c \in Conns :
        (pc[c] = "select" /\ psobs.unsuball[c] # None) =>
            LET n == psobs.unsuball[c][1].n
                at == psobs.unsuball[c][1].at IN
            /\ Len(out[c]) >= at + n
            /\ \A i \in 1 .. n :
                  out[c][at + i][1] = "unsubscribe" /\ out[c][at + i][3] = n - i
            /\ subs[c] = <<>>

\* C11: a command other than SUBSCRIBE, UNSUBSCRIBE and the mode-exit sentinel
\* read in subscribe mode is answered with exactly one frame, the Error frame
\* of Unknown naming the command, and leaves the subscription set as it was:
\* when the connection waits in its select! again, that frame is all it has
\* written since and it holds the same channels.
C11_OtherCommandOneError ==
    \A c \in Conns :
        (pc[c] = "select" /\ psobs.other[c] # None
            /\ psobs.other[c][1].name # ExitSubscribeName) =>
            LET o == psobs.other[c][1] IN
            /\ Len(out[c]) = o.at + 1
            /\ out[c][o.at + 1] = Error(UnknownText(o.name))
            /\ Range(StreamMapKeys(subs[c])) = o.keys

\* C12: a connection in subscribe mode that has sent the mode-exit sentinel is
\* back in normal dispatch (Reading) and its subscription set is gone.
C12_ExitReturnsToReading ==
    \A c \in Conns :
        (psobs.exited[c] /\ pc[c] # "closed") => (pc[c] = "reading" /\ subs[c] = <<>>)

\* ------------------------------------------------- dispatch properties
Failed(h) == ~decode_cmd_from_frame(h.req).ok
ListedKinds == {"get", "set", "del", "ping", "publish", "save", "unknown"}

\* C13: a request that fails command decoding is answered with one Error frame
\* and the handler goes on reading: the connection is not ended by it.
C13_DecodeFailureAnswered ==
    \A c \in Conns : \A i \in 1 .. Len(hist[c]) :
        Failed(hist[c][i]) =>
            /\ hist[c][i].frame[1] = "error"
            /\ i = Len(hist[c]) => pc[c] # "error"

\* C14: a request whose command name is no known verb is answered with
\* Error("ERR unknown command '<name>'"), <name> being the lowercased name.
C14_UnknownCommandText ==
    \A c \in Conns : \A i \in 1 .. Len(hist[c]) :
        LET cmd == decode_cmd_from_frame(hist[c][i].req) IN
        (cmd.ok /\ cmd.kind = "unknown") =>
            hist[c][i].frame = Error("ERR unknown command '" \o cmd.name \o "'")

\* C15: SUBSCRIBE without channels is answered with an Error frame; the
\* connection does not enter subscribe mode because of it.
C15_EmptySubscribeRejected ==
    \A c \in Conns : \A i \in 1 .. Len(hist[c]) :
        (hist[c][i].req.array /\ Len(hist[c][i].req.words) = 1
            /\ ToLower(hist[c][i].req.words[1]) = "subscribe") =>
            /\ hist[c][i].frame[1] = "error"
            /\ i = Len(hist[c]) => pc[c] \in {"reading", "dispatch"}

C17_ReturnsAfterHandlers ==
    /\ run_pc \in {"drop_tx", "drop_finish", "drain", "returned"} => snapshot # None
    /\ run_pc = "returned" => \A c \in Conns : ~Running(c)

C17_Witness ==
    /\ run_pc = "returned"
    /\ pc["c1"] = "done" /\ hist["c1"] # <<>>
    /\ pc["c2"] = "done"

\* C18: a handler that was applying a command when the shutdown broadcast
\* sender was dropped finishes that command and returns: it reads no further
\* frame.
C18_NoReadAfterShutdown ==
    [][TxDropped =>
          \A c \in busy : pc[c] = "reading" => pc'[c] # "dispatch"]_vars

\* C19: once the final snapshot is written no handler changes the keyspace
\* (no SET, no DEL is applied), so that when server::run returns the snapshot
\* is the keyspace.
C19_SnapshotIsFinal ==
    [][(run_pc \in {"drop_tx", "drop_finish", "drain"}) => entries' = entries]_vars

\* C20: within one call of accept the waits between consecutive attempts are
\* 1, 2, 4, 8, 16, 32, 64 seconds in this order, the error is returned only on
\* the failure that follows the wait of 64 seconds, and a call that follows a
\* successful accept starts again with a wait of 1 second.
BackoffSchedule == <<1, 2, 4, 8, 16, 32, 64>>
C20_BackoffSchedule ==
    /\ Len(lsn.slept) <= Len(BackoffSchedule)
    /\ \A i \in 1 .. Len(lsn.slept) : lsn.slept[i] = BackoffSchedule[i]
    /\ lsn.pc = "failed" => lsn.slept = BackoffSchedule
    /\ lsn.slept = <<>> => lsn.backoff = 1
    /\ lsn.pc = "sleeping" =>
          (Len(lsn.slept) < Len(BackoffSchedule)
             /\ lsn.backoff = BackoffSchedule[Len(lsn.slept) + 1])

C20_Witness ==
    /\ lsn.pc = "failed"
    /\ lsn.slept = BackoffSchedule
    /\ pc["c1"] = "reading"

\* ------------------------------------------------------ DEL properties
\* the step in which connection c applies DEL k
DelStep(c, k) ==
    /\ pc[c] = "dispatch" /\ pc'[c] = "reading"
    /\ decode_cmd_from_frame(cur[c][1].f) = DecodeOk("del", "del", <<k>>, None)

IsReq(h, words) == h.req = Req(words)

\* C21: every DEL k is answered Simple("OK"), whether k existed or not, and a
\* second DEL k applied to the store the first one left changes nothing.
C21_DelIdempotent ==
    [][\A c \in Conns : \A k \in Keys :
          DelStep(c, k) =>
              /\ hist'[c][Len(hist'[c])].frame = Simple("OK")
              /\ del(k)'.entries = entries'
              /\ del(k)'.expirations = expirations']_vars

C21_Witness ==
    /\ Len(hist["c1"]) = 3
    /\ IsReq(hist["c1"][1], <<"SET", "k1", "v1", "EX", "1">>)
    /\ IsReq(hist["c1"][2], <<"DEL", "k1">>) /\ hist["c1"][2].frame = Simple("OK")
    /\ IsReq(hist["c1"][3], <<"DEL", "k1">>) /\ hist["c1"][3].frame = Simple("OK")
    /\ entries = EmptyMap /\ expirations = {}

\* C22: a GET k that follows DEL k on the same connection answers Null when no
\* other connection has SET k, and after a DEL k is applied `expirations`
\* holds no pair of k.
NoSetBy(c, k) ==
    \A i \in 1 .. Len(hist[c]) :
        LET cmd == decode_cmd_from_frame(hist[c][i].req) IN
        ~(cmd.ok /\ cmd.kind = "set" /\ cmd.args[1] = k)

C22_GetAfterDel ==
    /\ [](\A c \in Conns : \A k \in Keys : \A i \in 1 .. Len(hist[c]) - 1 :
            (/\ IsReq(hist[c][i], <<"DEL", k>>)
             /\ IsReq(hist[c][i + 1], <<"GET", k>>)
             /\ \A d \in Conns \ {c} : NoSetBy(d, k))
                => hist[c][i + 1].frame = Null)
    /\ [][\A c \in Conns : \A k \in Keys :
             DelStep(c, k) => (k \notin DOMAIN entries' /\ PairsOf(expirations', k) = {})]_vars

C22_Witness ==
    /\ Len(hist["c1"]) = 3
    /\ IsReq(hist["c1"][1], <<"SET", "k1", "v1", "EX", "1">>)
    /\ IsReq(hist["c1"][2], <<"DEL", "k1">>)
    /\ IsReq(hist["c1"][3], <<"GET", "k1">>) /\ hist["c1"][3].frame = Null
    /\ expirations = {}

\* ---------------------------------------------------- codec properties
\* C23: for every frame f, write_frame(f) completes and parse_frame on the
\* bytes it wrote yields f and leaves in the buffer exactly the bytes that
\* followed them; Null and the zero-length Bulk come back as themselves.
C23_RoundTrip ==
    /\ wire.pc # "panicked"
    /\ wire.pc = "parsed" =>
          wire.back[1].r = [st |-> "frame", frame |-> wire.f, buffer |-> wire.back[1].tail]

\* C24: the calls of read_frame return the complete frames the peer wrote, in
\* the order written, and after the peer's close the call that finds no
\* further frame returns None when nothing is left in the buffer and the
\* error when the bytes of an unfinished frame are left, never before all
\* complete frames have been returned.
Returned(rets) == [i \in 1 .. Len(rets) |-> rets[i][1]]
C24_ReadFrameAtClose ==
    IF wire.pc = "ended"
    THEN LET n == Len(wire.rets) IN
         /\ wire.eof
         /\ Returned(SubSeq(wire.rets, 1, n - 1)) = wire.script
         /\ wire.rets[n] = (IF wire.partial = <<>> THEN "none" ELSE "reset")
         /\ wire.rets[n] = "none" <=> wire.buffer = <<>>
    ELSE /\ Len(wire.rets) <= Len(wire.script)
         /\ Returned(wire.rets) = SubSeq(wire.script, 1, Len(wire.rets))

C24_Witness ==
    /\ wire.pc = "ended"
    /\ Len(wire.script) = 2 /\ wire.partial # <<>>
    /\ wire.rets = <<Some(wire.script[1]), Some(wire.script[2]), "reset">>

\* ------------------------------------------------- snapshot properties
\* C25: the store loaded from the file written by save_to_rdb holds exactly
\* the keys of the saved keyspace, and GET of each of them answers the value
\* it had when saved.
C25_SnapshotRoundTrip ==
    rdb.pc = "loaded" =>
        /\ DOMAIN entries = DOMAIN rdb.saved
        /\ \A k \in DOMAIN rdb.saved : get(k) = Some(rdb.saved[k].data)

C25_Witness ==
    /\ rdb.pc = "loaded"
    /\ DOMAIN rdb.saved = Keys
    /\ rdb.saved["k1"].expires_at # None /\ rdb.saved["k2"].expires_at = None
    /\ get("k1") = Some(rdb.saved["k1"].data) /\ get("k2") = Some(rdb.saved["k2"].data)

\* -------------------------------------------------- the shutdown flags
\* C26: the store's shutdown flag is false until the DatabaseWrapper is
\* dropped and true from then on: no command and no pass of the eviction task
\* sets it back; a handler's is_shutdown, once set, stays set.
C26_ShutdownMonotonic ==
    /\ [](shutdown <=> run_pc \in {"returned", "panicked"})
    /\ [][/\ shutdown => shutdown'
          /\ \A c \in Conns : is_shutdown(c) => is_shutdown(c)']_vars

C26_Witness ==
    /\ shutdown
    /\ reaper.pc = "exited"
    /\ pc["c1"] = "dispatch" /\ hist["c1"] # <<>>
    /\ is_shutdown("c2")

\* ------------------------------------------------------ TTL properties
\* C27: the key of the latest SET with a TTL is in the keyspace as long as
\* the TTL has not elapsed since that SET (EX in whole seconds, PX in
\* milliseconds): the eviction task does not remove it early.
C27_NoEarlyEviction ==
    (obs # None /\ clock < obs[1].at + obs[1].dur) => obs[1].key \in DOMAIN entries

\* C28: SET is total for every TTL the decoder accepts: no command panics,
\* the store stays usable by every connection, and the expiry a SET recorded
\* is never earlier than the moment of that SET.
C28_SetTotal ==
    wire # None =>
        /\ ~wire.poisoned
        /\ wire.last # None => wire.last[1].result = "ok"
        /\ wire.when # None => wire.when[1] >= wire.set_at

\* C29: once DatabaseWrapper::new has returned, the store handed to the
\* handlers has its eviction task running until it is shut down, also when
\* the keyspace came from the snapshot file, and no eviction task runs on a
\* store no handler uses.
C29_OneReaperPerStore ==
    Built =>
        /\ ~shutdown => reaper.pc \in {"loop", "sleep", "waiting"}
        /\ wire.spare # None => wire.spare[1].pc = "exited"

\* C30: from the moment the shutdown flag is set, the eviction task of the
\* store eventually exits, wherever it was (asleep until an expiry, waiting for
\* a notification, or between the test of the flag and its pass), and no step
\* it takes after the flag is set removes an entry.
C30_ReaperExits ==
    /\ (shutdown /\ reaper.pc # "absent") ~> (reaper.pc = "exited")
    /\ [][(shutdown /\ reaper' # reaper) =>
             (entries' = entries /\ expirations' = expirations)]_vars

C30_Witness ==
    /\ wire # None /\ wire.pc = "notified"
    /\ wire.at_flag = Some("pass")
    /\ reaper.pc = "exited"

\* the pairs of `exps` that are due at `now`
Due(exps, now) == {p \in exps : p[1] <= now}

\* a pass of the eviction task on a store that is not shut down
PassStep == reaper.pc = "loop" /\ reaper' # reaper /\ ~shutdown

\* C31: a pass of the eviction task at second `now` removes from `entries`
\* and `expirations` exactly the keys whose expiry is at or before `now`,
\* leaves every other entry as it was, and returns the smallest remaining
\* expiry as its next wake-up time, or none when `expirations` is empty.
C31_PassRemovesDue ==
    [][PassStep =>
         LET due == Due(expirations, NowSecs)
             gone == {k \in DOMAIN entries :
                         entries[k].expires_at # None
                             /\ entries[k].expires_at[1] <= NowSecs} IN
         /\ expirations' = expirations \ due
         /\ DOMAIN entries' = DOMAIN entries \ gone
         /\ gone = {p[2] : p \in due}
         /\ \A k \in DOMAIN entries' : entries'[k] = entries[k]
         /\ IF expirations' = {}
            THEN reaper'.pc = "waiting"
            ELSE /\ reaper'.pc = "sleep"
                 /\ reaper'.when = Min({p[1] : p \in expirations'})]_vars

C31_Witness ==
    /\ reaper.pc = "sleep"
    /\ "k1" \notin DOMAIN entries
    /\ "k2" \in DOMAIN entries /\ entries["k2"].expires_at = Some(2)
    /\ NowSecs = 1

\* C32: GET leaves `entries`, `expirations`, `pub_sub` and `shutdown` as they
\* were and answers with the stored bytes of every key that is in `entries`,
\* also when the key's expiry has passed and the eviction task has not yet
\* removed it; it answers Null for a key that is not there.
C32_GetReadsOnly ==
    [][\A c \in Conns, k \in Keys :
          Get(c, k) =>
              /\ UNCHANGED <<entries, expirations, pub_sub, shutdown>>
              /\ resp' = IF k \in DOMAIN entries THEN Bulk(entries[k].data) ELSE Null]_vars

\* a GET answered with the bytes of a key that had expired when it was set
C32_Witness ==
    /\ "k1" \in DOMAIN entries
    /\ entries["k1"].expires_at = Some(0)
    /\ resp = Bulk(entries["k1"].data)

\* the handler of c takes request f: in normal mode by Dispatch, in subscriber
\* mode from the socket
TakesRequest(c, f) ==
    \/ pc[c] = "dispatch" /\ cur[c] # None /\ cur[c][1].f = f /\ pc'[c] # pc[c]
    \/ pc[c] = "select" /\ inq[c] # <<>> /\ Head(inq[c]).f = f /\ inq'[c] = Tail(inq[c])

\* C33: a request of a known verb that the decoder rejects (argument missing,
\* surplus tokens, unknown SET option, TTL not a number) leaves `entries`,
\* `expirations` and `pub_sub` as they were and does not notify the eviction
\* task.
C33_RejectedHasNoEffect ==
    [][\A c \in Conns : \A f \in Malformed :
          TakesRequest(c, f) =>
              (UNCHANGED <<entries, expirations, pub_sub, permit>> /\ pc'[c] = "error")]_vars

C33_Witness ==
    /\ pc["c1"] = "error"
    /\ Len(hist["c1"]) = 2
    /\ hist["c1"][2].req = Req(<<"SET", "k1", "v2", "XX", "1">>)
    /\ "k1" \in DOMAIN entries /\ entries["k1"].data = "v1"

\* the channels of the StreamMap sm
KeysOf(sm) == {sm[i].chan : i \in 1 .. Len(sm)}

\* C34: UNSUBSCRIBE with a non-empty channel list writes exactly one
\* unsubscribe frame for each channel it removes from the connection's
\* subscription set, with the size of the set after that removal, and a named
\* channel the connection is not subscribed to removes nothing.
C34_FramePerRemoval ==
    [][\A c \in Conns : \A chs \in UnsubLists :
          (chs # <<>> /\ RecvUnsubscribe(c, chs)) =>
              /\ KeysOf(subs'[c]) = KeysOf(subs[c]) \ Range(chs)
              /\ Len(out'[c]) - Len(out[c]) = Len(subs[c]) - Len(subs'[c])
              /\ \A i \in Len(out[c]) + 1 .. Len(out'[c]) :
                    /\ out'[c][i][1] = "unsubscribe"
                    /\ out'[c][i][2] \in KeysOf(subs[c])]_vars

\* C35: the registry of channels only grows.  A channel enters `pub_sub` by
\* Database::subscribe and by nothing else (PUBLISH on an unknown channel adds
\* nothing) and never leaves it, also when every receiver of the channel has
\* been dropped; PUBLISH on a channel without receivers returns 0.
C35_RegistryOnlyGrows ==
    [][/\ pub_sub \subseteq pub_sub'
       /\ pub_sub' # pub_sub =>
             \E c \in Conns :
                 /\ pc[c] = "subscribe" /\ pc'[c] = "insert"
                 /\ pub_sub' = pub_sub \cup {chans[c][idx[c]]}
       /\ \A c \in Conns, ch \in Channels :
             (Publish(c, ch) /\ RxCount(ch) = 0) =>
                 (resp' = Integer(0) /\ pub_sub' = pub_sub)]_vars

\* the second PUBLISH on "a" found the channel without receivers, after the
\* subscriber that received the first one had closed
C35_Witness ==
    /\ "a" \in pub_sub
    /\ pc["c1"] = "closed"
    /\ \E i \in 1 .. Len(out["c1"]) : out["c1"][i] = MessageFrame("a", 1)
    /\ npub = 2
    /\ psobs.lastpub # None /\ psobs.lastpub[1].chan = "a" /\ psobs.lastpub[1].n = 0
    /\ resp = Integer(0)

\* the messages on channel ch that wait in the receivers of connection c
Waiting(c, ch) ==
    UNION {Range(subs[c][i].q) : i \in Positions(subs[c], ch)}
        \cup (IF Pending(c, ch) THEN Range(newrx[c][1].q) ELSE {})

\* C36: a subscriber that has fallen behind by the capacity of the channel
\* stays subscribed, and every message published from then on is written to
\* it or still waits in its receiver; the publisher is answered each time.
C36_LaggedStillReceives ==
    /\ pc["c1"] \in {"select", "subscribe", "insert"}
    /\ \A m \in ChannelCapacity + 1 .. npub :
          \/ \E i \in 1 .. Len(out["c1"]) : out["c1"][i] = MessageFrame("a", m)
          \/ m \in Waiting("c1", "a")

\* the header line of the frame at the start of src, when it is complete
HeaderLine(src) == get_line(src, 2)

\* buffers the claim calls malformed: an unknown tag byte, a `$-` header
\* other than `$-1`, a length that is not a decimal number
MalformedBuffer(src) ==
    /\ src # <<>>
    /\ \/ src[1] \notin {"+", "-", ":", "$", "*"}
       \/ /\ src[1] = "$"
          /\ HeaderLine(src).st = "ok"
          /\ \/ Len(HeaderLine(src).line) > 0 /\ HeaderLine(src).line[1] = "-"
                   /\ HeaderLine(src).line # <<"-", "1">>
             \/ HeaderLine(src).line = <<>>
             \/ \E i \in 1 .. Len(HeaderLine(src).line) :
                   HeaderLine(src).line[1] # "-" /\ ~IsDigit(HeaderLine(src).line[i])

\* C37: when check succeeds on a buffer, parse from the same start succeeds
\* and ends at the position check ended at; on a malformed buffer check
\* fails with Invalid.
C37_CheckThenParse ==
    /\ wire.pc = "parsed" =>
          (wire.prs[1].st = "ok" /\ wire.prs[1].pos = wire.chk[1].pos)
    /\ (wire.pc # "buffer" /\ MalformedBuffer(wire.src)) => wire.chk[1].st = "invalid"

\* ------------------------------------------- handlers that end, one by one
\* SET k1 v1 EX with the largest number of seconds the decoder accepts
HugeTtlSet == Req(<<"SET", "k1", "v1", "EX", "18446744073709551615">>)

IsoRequests(c) ==
    IF c = "c1"
    THEN { HugeTtlSet, Req(<<"GET">>), Req(<<"SET", "k1", "v1">>) }
    ELSE { Req(<<"GET", "k1">>), Req(<<"SET", "k1", "v1", "EX", "1">>) }

\* the store at a Unix time of one second or more, in either build
IsoInit ==
    /\ StoreInit(None, "unconnected")
    /\ rdb = None
    /\ wire \in {SetState(b, 1) : b \in Builds}

\* the state mutex is poisoned: every lock().unwrap() panics from now on
Poisoned == wire # None /\ wire.poisoned

\* the command read by the handler of c locks the state when applied
LocksState(c) ==
    \/ cur[c][1].f = HugeTtlSet
    \/ LET cmd == decode_cmd_from_frame(cur[c][1].f) IN
       cmd.ok /\ cmd.kind \in {"get", "set", "del", "publish", "save", "subscribe"}

\* Handler::run, lines 72-78, for every request but HugeTtlSet while the
\* mutex is sound, and for the requests that fail to decode
IsoDispatch(c) ==
    /\ pc[c] = "dispatch"
    /\ cur[c][1].f # HugeTtlSet
    /\ ~(Poisoned /\ LocksState(c))
    /\ Dispatch(c)

\* Set::apply of HugeTtlSet -> Database::set: `now + duration.as_secs()` is
\* computed while the guard of `state` is alive.  With overflow checks the
\* task panics, the unwinding poisons the mutex and drops the Handler;
\* without, `when` wraps to the second before now.
SetHugeTtl(c) ==
    /\ pc[c] = "dispatch"
    /\ cur[c][1].f = HugeTtlSet
    /\ ~Poisoned
    /\ LET item == cur[c][1]
           when == AddU64(wire.build, wire.now, MaxWord) IN
       IF when = None
       THEN /\ pc' = [pc EXCEPT ![c] = "panicked"]
            /\ wire' = [wire EXCEPT !.poisoned = TRUE,
                                    !.last = Some(Ran(c, "set", "panicked"))]
            /\ hist' = [hist EXCEPT ![c] =
                           Append(@, [k |-> item.k, req |-> item.f, frame |-> NoFrame])]
            /\ UNCHANGED <<entries, expirations, permit, resp>>
       ELSE LET expire_at == Some(NowSecs + when[1] - wire.now) IN
            /\ pc' = [pc EXCEPT ![c] = "reading"]
            /\ wire' = [wire EXCEPT !.when = when, !.set_at = wire.now,
                                    !.last = Some(Ran(c, "set", "ok"))]
            /\ entries' = MapInsert(entries, "k1", Entry("v1", expire_at))
            /\ expirations' = InsertNew(RemovePrev(expirations, entries, "k1"), expire_at, "k1")
            /\ permit' = (permit \/ NotifyNeeded(expirations, expire_at))
            /\ resp' = Simple("OK")
            /\ hist' = [hist EXCEPT ![c] =
                           Append(@, [k |-> item.k, req |-> item.f, frame |-> Simple("OK")])]
    /\ cur' = [cur EXCEPT ![c] = None]
    /\ UNCHANGED <<shutdown, reaper, clock, obs, inq, sent, rdb>>
    /\ UNCHANGED <<psVars, srvVars>>

\* a command that starts with lock().unwrap() on the poisoned mutex: the
\* task panics and the Handler is dropped
PoisonedPanic(c) ==
    /\ pc[c] = "dispatch"
    /\ Poisoned
    /\ LocksState(c)
    /\ pc' = [pc EXCEPT ![c] = "panicked"]
    /\ hist' = [hist EXCEPT ![c] =
                   Append(@, [k |-> cur[c][1].k, req |-> cur[c][1].f, frame |-> NoFrame])]
    /\ cur' = [cur EXCEPT ![c] = None]
    /\ wire' = [wire EXCEPT !.last = Some(Ran(c, "lock", "panicked"))]
    /\ UNCHANGED <<resp, inq, sent, rdb>>
    /\ UNCHANGED <<kvVars, psVars, srvVars>>

\* the eviction task: is_shutdown and clean_expired_keys start with
\* lock().unwrap()
IsoReaperPass ==
    IF Poisoned
    THEN /\ reaper.pc = "loop"
         /\ reaper' = Task("panicked")
         /\ UNCHANGED <<entries, expirations, shutdown, permit, clock, obs, pc, resp>>
         /\ UNCHANGED <<psVars, hVars, srvVars, ioVars>>
    ELSE ReaperPass

\* server.save_rdb() -> save_to_rdb: on the poisoned mutex lock().unwrap()
\* panics in server::run; the unwinding drops DatabaseWrapper, whose
\* shutdown_clean_task panics again, and the process aborts.
IsoSaveRdb ==
    IF Poisoned
    THEN /\ run_pc = "save"
         /\ run_pc' = "aborted"
         /\ pc' = [c \in Conns |-> IF Running(c) THEN "aborted" ELSE pc[c]]
         /\ reaper' = IF reaper.pc \in {"exited", "panicked"} THEN reaper ELSE Task("aborted")
         /\ UNCHANGED <<entries, expirations, shutdown, permit, clock, obs, resp>>
         /\ UNCHANGED <<psVars, hVars, snapshot, lsn, busy, ioVars>>
    ELSE SaveRdb

\* the end of server::run: DatabaseWrapper::drop -> shutdown_clean_task
\* starts with lock().unwrap() too
IsoDrainClosed ==
    IF Poisoned
    THEN /\ run_pc = "drain"
         /\ AllSendersDropped
         /\ run_pc' = "panicked"
         /\ UNCHANGED <<kvVars, psVars, hVars, snapshot, lsn, busy, pc, resp, ioVars>>
    ELSE DrainClosed

IsoNext ==
    \/ \E c \in Conns : AcceptOk(c)
    \/ \E c \in Conns : \E f \in IsoRequests(c) : ClientSend(c, f)
    \/ \E c \in Conns : ReadFrame(c)
    \/ \E c \in Conns : IsoDispatch(c)
    \/ \E c \in Conns : SetHugeTtl(c)
    \/ \E c \in Conns : PoisonedPanic(c)
    \/ \E c \in Conns : HangUp(c)
    \/ \E c \in Conns : ObserveShutdown(c)
    \/ IsoReaperPass
    \/ ReaperWake
    \/ ShutdownSignal
    \/ IsoSaveRdb
    \/ DropShutdownTx
    \/ DropFinishTx
    \/ IsoDrainClosed

\* the server and its handlers, some of which end by a close, a decode
\* error, the shutdown signal or a panic
IsoSpec == IsoInit /\ [][IsoNext]_vars

\* positions of a handler that does not hold a drain sender
Ended == {"unconnected", "closed", "error", "done", "panicked"}

\* C38: the step that ends a handler, whatever the reason, changes no other
\* handler, leaves the accept loop, server::run and the eviction task where
\* they were and the store able to serve; a drain wait that finds every
\* handler ended is over.
C38_FailureIsolated ==
    [][/\ \A c \in Conns :
             (Running(c) /\ ~Running(c)') =>
                 /\ \A d \in Conns \ {c} : pc'[d] = pc[d]
                 /\ lsn' = lsn /\ run_pc' = run_pc
                 /\ reaper' = reaper /\ shutdown' = shutdown
                 /\ ~Poisoned'
       /\ (run_pc = "drain" /\ \A c \in Conns : pc[c] \in Ended) => AllSendersDropped]_vars

\* frame i of what connection c has written is a `message` frame on ch
IsMessageOn(c, i, ch) == out[c][i][1] = "message" /\ out[c][i][2] = ch

\* C39: the `message` frames a connection writes for one channel carry
\* messages that were published, in the order PUBLISH applied them, each at
\* most once.
C39_InOrderAtMostOnce ==
    \A c \in Conns, ch \in Channels :
        \A i, j \in 1 .. Len(out[c]) :
            (i < j /\ IsMessageOn(c, i, ch) /\ IsMessageOn(c, j, ch)) =>
                /\ out[c][i][3] \in 1 .. npub
                /\ out[c][j][3] \in 1 .. npub
                /\ out[c][i][3] < out[c][j][3]

\* c1 has written the first and then the second message published on "a"
C39_Witness ==
    \E i, j \in 1 .. Len(out["c1"]) :
        /\ i < j
        /\ out["c1"][i] = MessageFrame("a", 1)
        /\ out["c1"][j] = MessageFrame("a", 2)

====
